---- MODULE Spec2Model ----
(***************************************************************************)
(* The Yul import preprocessor (solidity/preprocessor/yul_preprocessor.py) *)
(* as a state machine.                                                     *)
(*                                                                         *)
(* The recursion process_file -> process_assembly_block -> resolve_import  *)
(* -> process_file (and the cycle-group collection) is run on an explicit  *)
(* stack of activation records, `frames`, one action per program point at  *)
(* which a call is made, a call returns or an exception is handled.  The   *)
(* instance fields processed_cache and cycle_groups and the list object    *)
(* processing_stack that one top-level call shares by reference are        *)
(* variables of their own.                                                 *)
(*                                                                         *)
(* Text is abstracted to what the preprocessor reads from it.  A block is  *)
(* a sequence of items: an import directive, a function definition, a      *)
(* slither annotation or a blank line.                                     *)
(* A definition carries its name, its signature, the known-function calls  *)
(* written between its braces, the shape of its text (which decides what   *)
(* the line-oriented extractor and the line-oriented filter see of it) and *)
(* the file and block it was written in.                                   *)
(***************************************************************************)
EXTENDS Integers, Sequences, FiniteSets, TLC

VARIABLES
  files,             \* the input files on disk: file name -> sequence of blocks
  processed_cache,   \* YulPreprocessor.processed_cache: file -> processed content
  cycle_groups,      \* YulPreprocessor.cycle_groups, in insertion order
  processing_stack,  \* the processing_stack list of the running top-level call
  frames,            \* activation records of the running call, innermost last
  ret,               \* value returned, or exception raised, by the frame just left
  results,           \* outcomes of the top-level process_file calls, in call order
  top_calls,         \* number of top-level calls made on this instance
  host,              \* the import statements of a host-language text, and their rewrite
  dir,               \* the activation of preprocess_directory
  walk               \* the activation of a pure component called on its own

vars == <<files, processed_cache, cycle_groups, processing_stack, frames, ret, results,
          top_calls, host, dir, walk>>

(***************************************************************************)
(* Bounds of the model.                                                    *)
(***************************************************************************)
\* top-level process_file calls made on one instance
MaxCalls == 2
\* nested process_file activations after which the run is cut off
MaxDepth == 12
\* resolver instances created one after the other on the same files
MaxRuns == 2
\* top-level process_file calls made on each of these instances
RunCalls == 1
\* import statements in a host-language text
MaxStatements == 2
\* The longest text, in tokens, that find_assembly_blocks is run on.
MaxContent == 6
\* The most items of a block that extract_yul_functions is run on.
MaxItems == 4

(***************************************************************************)
(* Text.                                                                   *)
(***************************************************************************)
\* The shapes a definition's text takes:
\*   "std"       function f(..) -> r {      signature and brace on one line,
\*                   <body lines>            the body on the lines after it
\*               }
\*   "oneline"   function f(..) -> r { <body> }          all on one line
\*   "multisig"  function f(                 the signature spans lines,
\*                   ..                      the brace ends the last of them,
\*               ) -> r {                    the body on the lines after it
\*                   <body lines>
\*               }
Shapes == {"std", "oneline", "multisig"}

\* A function definition as written in a block of `file`.
DefText(name, signature, calls, shape, file, block) ==
  [name |-> name, signature |-> signature, calls |-> calls, shape |-> shape,
   file |-> file, block |-> block]

\* An item of a block: an import directive ...
Imp(names, loc) == [kind |-> "imp", names |-> names, loc |-> loc]
\* ... or a function definition (imported: it was emitted by the rewriter).
Def(text, imported) == [kind |-> "def", text |-> text, imported |-> imported]

\* ... or a slither annotation, the comment line // slither-disable-<tag> <rule>
\* with tag start, end or next-line ...
Cmt(tag, rule) == [kind |-> "cmt", tag |-> tag, rule |-> rule]
\* ... or a line that holds nothing but the white space ws.
Blank(ws) == [kind |-> "blank", ws |-> ws]

\* The two coverage-exclusion sentinels the rewriter emits around a function.
StartName(name) == "exclude_coverage_start_" \o name
StopName(name) == "exclude_coverage_stop_" \o name
SentinelText(sname) ==
  DefText(sname, "function " \o sname \o "()", {}, "oneline", "", 0)

(***************************************************************************)
(* YulFunction and the insertion-ordered dicts of them.                    *)
(***************************************************************************)
YulFunction(name, signature, body, full_text, pre_comments, post_comments, source_file) ==
  [name |-> name, signature |-> signature, body |-> body, full_text |-> full_text,
   pre_comments |-> pre_comments, post_comments |-> post_comments,
   source_file |-> source_file]

\* A dict name -> YulFunction is the sequence of its values in insertion order.
Keys(d) == {d[i].name : i \in 1..Len(d)}

Lookup(d, n) == d[CHOOSE i \in 1..Len(d) : d[i].name = n]

\* d[fn.name] = fn: a present key keeps its place and takes the new value.
Store(d, fn) ==
  IF fn.name \in Keys(d)
  THEN [i \in 1..Len(d) |-> IF d[i].name = fn.name THEN fn ELSE d[i]]
  ELSE Append(d, fn)

\* if fn.name not in d: d[fn.name] = fn
StoreIfAbsent(d, fn) == IF fn.name \in Keys(d) THEN d ELSE Append(d, fn)

RECURSIVE DictUpdate(_, _)
\* d.update(e)
DictUpdate(d, e) ==
  IF e = <<>> THEN d ELSE DictUpdate(Store(d, Head(e)), Tail(e))

\* A merge that keeps a dict that holds something as it is.
KeepFilled(d, e) == IF d = <<>> THEN e ELSE d

RECURSIVE DictAddAbsent(_, _)
\* for name, func in e.items(): if name not in d: d[name] = func
DictAddAbsent(d, e) ==
  IF e = <<>> THEN d ELSE DictAddAbsent(StoreIfAbsent(d, Head(e)), Tail(e))

\* All the orders in which the elements of a set may be iterated.
Orders(S) ==
  {s \in [1..Cardinality(S) -> S] : \A i, j \in 1..Cardinality(S) : s[i] = s[j] => i = j}

(***************************************************************************)
(* The pure components.                                                    *)
(***************************************************************************)
\* The blocks of a file's content, in source order.
find_assembly_blocks(content) == content

\* The function items of a block, in source order.
DefItems(block) == SelectSeq(block, LAMBDA it : it.kind = "def")

\* The directives of a block, in source order.
ImportItems(block) == SelectSeq(block, LAMBDA it : it.kind = "imp")

\* The body the extractor records: the lines after the line that holds the
\* opening brace.  A definition written on one line has none.
ExtractedBody(text) == IF text.shape = "oneline" THEN {} ELSE text.calls

\* The signature the extractor records: the signature lines joined by a
\* space, up to the brace, stripped at both ends only.  The line breaks of a
\* multi-line signature stay in it as spaces, so the same parameters written
\* on one line give another string.
ExtractedSignature(text) ==
  IF text.shape = "multisig" THEN text.signature \o " (joined)" ELSE text.signature

\* The lines a definition takes, by its shape (a signature line, a body
\* line and the closing brace; a signature over three lines, two body lines
\* and the closing brace), and any other item.
StdLines == 3
MultisigLines == 6
LineCount(it) ==
  IF it.kind # "def" THEN 1
  ELSE IF it.text.shape = "oneline" THEN 1
  ELSE IF it.text.shape = "std" THEN StdLines
  ELSE MultisigLines

RECURSIVE LookBack(_, _)
\* The annotations before a definition, from line j backwards: start and
\* next-line annotations are taken, blank lines passed over; an end
\* annotation or any other line ends the walk.
LookBack(lines, j) ==
  IF j < 1 THEN <<>>
  ELSE IF lines[j].kind = "cmt" /\ lines[j].tag # "end"
       THEN Append(LookBack(lines, j - 1), lines[j])
  ELSE IF lines[j].kind = "blank" THEN LookBack(lines, j - 1)
  ELSE <<>>

\* max_lookahead = 20 if has_disable_start else 5
LookaheadWithStart == 20
LookaheadPlain == 5
max_lookahead(has_disable_start) ==
  IF has_disable_start THEN LookaheadWithStart ELSE LookaheadPlain

RECURSIVE LookAhead(_, _, _, _)
\* The walk after a definition for its end annotation: item k begins
\* `offset` lines after the definition.  The position of the first end
\* annotation met within max_lookahead lines, or 0.  Blank lines are passed
\* over, and so is every line when the definition has a start annotation.
LookAhead(lines, k, offset, has_disable_start) ==
  IF k > Len(lines) \/ offset >= max_lookahead(has_disable_start) THEN 0
  ELSE IF lines[k].kind = "cmt" /\ lines[k].tag = "end" THEN k
  ELSE IF lines[k].kind = "blank" \/ has_disable_start
       THEN LookAhead(lines, k + 1, offset + LineCount(lines[k]), has_disable_start)
  ELSE 0

RECURSIVE ExtractInto(_, _, _, _)
\* The while loop of extract_yul_functions, at line i.  After a definition
\* whose end annotation was found the loop goes on behind that annotation.
ExtractInto(functions, lines, i, source_file) ==
  IF i > Len(lines) THEN functions
  ELSE IF lines[i].kind # "def" THEN ExtractInto(functions, lines, i + 1, source_file)
  ELSE LET t == lines[i].text
           pre_comment_lines == LookBack(lines, i - 1)
           has_disable_start == \E c \in {pre_comment_lines[j] : j \in 1..Len(pre_comment_lines)} :
                                   c.tag = "start"
           found == LookAhead(lines, i + 1, 0, has_disable_start)
           post_comment_lines == IF found = 0 THEN <<>> ELSE <<lines[found]>>
       IN ExtractInto(Store(functions,
                            YulFunction(t.name, ExtractedSignature(t), ExtractedBody(t), t,
                                        pre_comment_lines, post_comment_lines, source_file)),
                      lines, IF found = 0 THEN i + 1 ELSE found + 1, source_file)

\* The dict of the functions defined in one block.
extract_yul_functions(assembly_content, source_file) ==
  ExtractInto(<<>>, assembly_content, 1, source_file)

RECURSIVE ExtractAllBlocks(_, _, _)
\* all_functions = {}; for each block: all_functions.update(extract(block))
ExtractAllBlocks(all_functions, blocks, source_file) ==
  IF blocks = <<>> THEN all_functions
  ELSE ExtractAllBlocks(DictUpdate(all_functions,
                                   extract_yul_functions(Head(blocks), source_file)),
                        Tail(blocks), source_file)

\* A scan of a body that finds no call.
no_calls(body, all_functions) == {}

\* The known functions a body calls.
find_yul_function_calls(body, all_functions) == body \cap Keys(all_functions)

RECURSIVE DependencyWalk(_, _, _, _)
\* The while loop of get_function_dependencies.  `called` is a Python set:
\* the order in which its elements are pushed is not determined by the code.
DependencyWalk(to_process, processed, deps, all_functions) ==
  IF to_process = <<>> THEN {deps}
  ELSE LET current == to_process[Len(to_process)]
           rest == SubSeq(to_process, 1, Len(to_process) - 1)
       IN IF current \in processed
          THEN DependencyWalk(rest, processed, deps, all_functions)
          ELSE LET fn == Lookup(all_functions, current)
                   called == find_yul_function_calls(fn.body, all_functions)
                   fresh == called \ (processed \cup {current})
               IN UNION {DependencyWalk(rest \o ord, processed \cup {current},
                                        Store(deps, fn), all_functions)
                         : ord \in Orders(fresh)}

\* The dicts get_function_dependencies may return: func_name and everything
\* it calls, directly or not, among all_functions.
get_function_dependencies(func_name, all_functions) ==
  IF func_name \notin Keys(all_functions) THEN {<<>>}
  ELSE DependencyWalk(<<func_name>>, {}, <<>>, all_functions)

\* Paths.  The files of the model lie in one directory, /abs/proj.  The
\* absolute, normalized path of a file in it, which Path.resolve() gives, is
\* written as the name of the file alone; any other way to write a path is
\* the string of it.
AbsoluteRoot == "/abs/proj"

\* self.root_dir = Path(root_dir): the directory as the caller wrote it.  It
\* is the directory of the files, written in full, except where the
\* resolution of paths is run on its own with a root of its own.
root_dir == IF "root_dir" \in DOMAIN walk THEN walk.root_dir ELSE AbsoluteRoot

\* The locations that begin with a slash, and what is left of each once the
\* slashes at its head are stripped.
RootRelative == {"/a", "/b", "/c"}
Stripped(import_path) ==
  CASE import_path = "/a" -> "a" [] import_path = "/b" -> "b" [] import_path = "/c" -> "c"

\* root / name: the two are joined as they are written, nothing is resolved.
Joined(root, name) == IF root = AbsoluteRoot THEN name ELSE root \o "/" \o name

\* Path.resolve(): the absolute, normalized path.
PathResolve(path) ==
  IF \E n \in {"a", "b", "c"} :
        path \in {"proj/" \o n, "/abs/link/" \o n, "/abs/proj/../proj/" \o n}
  THEN CHOOSE n \in {"a", "b", "c"} :
          path \in {"proj/" \o n, "/abs/link/" \o n, "/abs/proj/../proj/" \o n}
  ELSE path

\* resolve_import_path: the file a directive's location names.  A location
\* with a slash at its head is joined to root_dir; any other is taken from
\* the directory of the current file and resolved.
resolve_import_path(import_path, current_file) ==
  IF import_path \in RootRelative
  THEN Joined(root_dir, Stripped(import_path))
  ELSE PathResolve(import_path)

\* Path.exists()
exists(file_path) == file_path \in DOMAIN files

\* Path.read_text()
read_text(file_path) == files[file_path]

\* Files that are read raw instead of being processed: the suffix is not .presl.
SolFiles == {"u.sol"}
suffix(file_path) == IF file_path \in SolFiles THEN ".sol" ELSE ".presl"

(***************************************************************************)
(* Exceptions and the return register.                                     *)
(***************************************************************************)
\* An exception: its type and what its message says.  `available` is the
\* list of names a 'not found' message ends with, sorted, hence a set.
Exc(type, what, name, sig1, sig2, available) ==
  [type |-> type, what |-> what, name |-> name, sig1 |-> sig1, sig2 |-> sig2,
   available |-> available]
NoExc == Exc("", "", "", "", "", {})
FileNotFound(file_path) == Exc("FileNotFoundError", "file not found", file_path, "", "", {})
\* A 'not found' error that lists no name.
NotFoundBare(func_name, functions) ==
  Exc("ValueError", "function not found", func_name, "", "", {})
\* Function '{func_name}' not found ... Available functions: {available}
NotFound(func_name, functions) ==
  Exc("ValueError", "function not found", func_name, "", "", Keys(functions))
CycleConflict(func_name, sig1, sig2) ==
  Exc("ValueError", "signature conflict in cycle group", func_name, sig1, sig2, {})
Mismatch(func_name, sig1, sig2) ==
  Exc("ValueError", "signature mismatch", func_name, sig1, sig2, {})

NoRet == [kind |-> "none", value |-> <<>>, exc |-> NoExc]
Returned(v) == [kind |-> "value", value |-> v, exc |-> NoExc]
Raised(e) == [kind |-> "exc", value |-> <<>>, exc |-> e]

(***************************************************************************)
(* The cycle-group table: a dict frozenset -> dict, in insertion order.    *)
(***************************************************************************)
GroupKeys == {cycle_groups[i].key : i \in 1..Len(cycle_groups)}

GroupOf(key) == cycle_groups[CHOOSE i \in 1..Len(cycle_groups) : cycle_groups[i].key = key].fns

\* self.cycle_groups[cycle_key] = fns
StoreGroup(groups, key, fns) ==
  IF \E i \in 1..Len(groups) : groups[i].key = key
  THEN [i \in 1..Len(groups) |-> IF groups[i].key = key THEN [key |-> key, fns |-> fns] ELSE groups[i]]
  ELSE Append(groups, [key |-> key, fns |-> fns])

\* The groups, in table order, that have target_file as a member.
GroupsWith(target_file) ==
  SelectSeq(cycle_groups, LAMBDA g : target_file \in g.key)

Last(s) == s[Len(s)]

(***************************************************************************)
(* Activation records.                                                     *)
(***************************************************************************)
Top == frames[Len(frames)]
Callers == SubSeq(frames, 1, Len(frames) - 1)
Running(op, pc) == frames # <<>> /\ Top.op = op /\ Top.pc = pc

ProcessFileFrame(file_path, cycle_group) ==
  [op |-> "process_file", pc |-> "enter", file_path |-> file_path,
   cycle_group |-> cycle_group, cycle_files |-> {}, blocks |-> <<>>, bidx |-> 0]

ProcessBlockFrame(block_content, bidx, current_file, cycle_group) ==
  [op |-> "process_assembly_block", pc |-> "loop", block_content |-> block_content,
   bidx |-> bidx, current_file |-> current_file, cycle_group |-> cycle_group,
   dirs |-> ImportItems(block_content), k |-> 1,
   imported_funcs |-> <<>>, imported_functions |-> <<>>]

ResolveImportFrame(func_name, import_path, current_file, cycle_group) ==
  [op |-> "resolve_import", pc |-> "enter", func_name |-> func_name,
   import_path |-> import_path, current_file |-> current_file,
   cycle_group |-> cycle_group, todo |-> <<>>, external_deps |-> <<>>]

CollectFrame(cycle_files) ==
  [op |-> "collect_all_functions_in_cycle", pc |-> "enter", cycle_files |-> cycle_files,
   all_functions |-> <<>>, todo |-> <<>>, external_functions |-> <<>>]

\* The process_file activations among the records.
Depth == Cardinality({i \in 1..Len(frames) : frames[i].op = "process_file"})

(***************************************************************************)
(* process_file                                                            *)
(***************************************************************************)
Range(seq) == {seq[i] : i \in 1..Len(seq)}

\* The paths of the stack from the first occurrence of file_path on, and file_path.
CycleFiles(stack, file_path) ==
  LET first == CHOOSE i \in 1..Len(stack) :
                 stack[i] = file_path /\ \A j \in 1..(i - 1) : stack[j] # file_path
  IN {stack[i] : i \in first..Len(stack)} \cup {file_path}

\* list.remove(file_path): the first occurrence goes.
RemoveFirst(stack, file_path) ==
  LET first == CHOOSE i \in 1..Len(stack) :
                 stack[i] = file_path /\ \A j \in 1..(i - 1) : stack[j] # file_path
  IN SubSeq(stack, 1, first - 1) \o SubSeq(stack, first + 1, Len(stack))

\* process_file from "Return cached content if available" to the push on the
\* stack, for the activation fr; in_stack: file_path was on the stack at entry.
ProcessFileProceed(fr, in_stack) ==
  LET cycle_group == IF in_stack /\ fr.cycle_group = {}
                     THEN fr.cycle_files ELSE fr.cycle_group
      content == read_text(fr.file_path)
  IN IF fr.file_path \in DOMAIN processed_cache
     THEN /\ frames' = Callers
          /\ ret' = Returned(processed_cache[fr.file_path])
          /\ UNCHANGED processing_stack
     ELSE IF ~exists(fr.file_path)
     THEN /\ frames' = Callers
          /\ ret' = Raised(FileNotFound(fr.file_path))
          /\ UNCHANGED processing_stack
     ELSE /\ processing_stack' = Append(processing_stack, fr.file_path)
          /\ frames' = Append(Callers,
                              [fr EXCEPT !.pc = "blocks", !.cycle_group = cycle_group,
                                         !.blocks = find_assembly_blocks(content),
                                         !.bidx = Len(find_assembly_blocks(content))])
          /\ ret' = NoRet

\* Entry of process_file: the check for a circular dependency.  A path that is
\* on the stack closes a cycle; a cycle whose key is new has its functions
\* collected first.
ProcessFileEnter ==
  /\ Running("process_file", "enter")
  /\ ret.kind = "none"
  /\ Depth <= MaxDepth
  /\ LET fr == Top
         in_stack == fr.file_path \in Range(processing_stack)
         cycle_files == IF in_stack THEN CycleFiles(processing_stack, fr.file_path) ELSE {}
     IN IF in_stack /\ cycle_files \notin GroupKeys
        THEN /\ frames' = Append(Append(Callers, [fr EXCEPT !.pc = "collect",
                                                            !.cycle_files = cycle_files]),
                                 CollectFrame(cycle_files))
             /\ UNCHANGED <<ret, processing_stack>>
        ELSE ProcessFileProceed([fr EXCEPT !.cycle_files = cycle_files], in_stack)
  /\ UNCHANGED <<walk, host, dir, files, processed_cache, cycle_groups, results, top_calls>>

\* The collection returned: the group is recorded and process_file goes on.
ProcessFileCollected ==
  /\ Running("process_file", "collect")
  /\ ret.kind = "value"
  /\ cycle_groups' = StoreGroup(cycle_groups, Top.cycle_files, ret.value)
  /\ ProcessFileProceed(Top, TRUE)
  /\ UNCHANGED <<walk, host, dir, files, processed_cache, results, top_calls>>

\* The loop over the blocks, last block first: the next block is rewritten.
ProcessFileNextBlock ==
  /\ Running("process_file", "blocks")
  /\ Top.bidx >= 1
  /\ frames' = Append(Append(Callers, [Top EXCEPT !.pc = "block_wait"]),
                      ProcessBlockFrame(Top.blocks[Top.bidx], Top.bidx,
                                        Top.file_path, Top.cycle_group))
  /\ UNCHANGED <<walk, host, dir, files, processed_cache, cycle_groups, processing_stack, ret, results, top_calls>>

\* "assembly {\n" + processed_block + "\n    }": the lines between the braces
\* of the block that replaces the old one.
Reframed(processed_block) == <<Blank("")>> \o processed_block \o <<Blank("    ")>>

\* The rewritten block replaces the block in the content.
ProcessFileBlockDone ==
  /\ Running("process_file", "block_wait")
  /\ ret.kind = "value"
  /\ frames' = Append(Callers, [Top EXCEPT !.pc = "blocks",
                                           !.blocks[Top.bidx] = Reframed(ret.value),
                                           !.bidx = Top.bidx - 1])
  /\ ret' = NoRet
  /\ UNCHANGED <<walk, host, dir, files, processed_cache, cycle_groups, processing_stack, results, top_calls>>

\* After the last block: the path leaves the stack, the content is cached
\* and returned.
ProcessFileFinish ==
  /\ Running("process_file", "blocks")
  /\ Top.bidx = 0
  /\ processing_stack' = IF Top.file_path \in Range(processing_stack)
                         THEN RemoveFirst(processing_stack, Top.file_path)
                         ELSE processing_stack
  /\ processed_cache' = [f \in DOMAIN processed_cache \cup {Top.file_path} |->
                           IF f = Top.file_path THEN Top.blocks ELSE processed_cache[f]]
  /\ frames' = Callers
  /\ ret' = Returned(Top.blocks)
  /\ UNCHANGED <<walk, host, dir, files, cycle_groups, results, top_calls>>

(***************************************************************************)
(* process_assembly_block                                                  *)
(***************************************************************************)
RECURSIVE MergeChecked(_, _)
\* The merge of the functions `e` into the dict `acc` that stops at a name
\* met with two signatures and keeps the first function otherwise.
MergeChecked(acc, e) ==
  IF e = <<>> THEN [ok |-> TRUE, fns |-> acc, name |-> "", sig1 |-> "", sig2 |-> ""]
  ELSE LET fn == Head(e)
       IN IF fn.name \in Keys(acc) /\ Lookup(acc, fn.name).signature # fn.signature
          THEN [ok |-> FALSE, fns |-> acc, name |-> fn.name,
                sig1 |-> Lookup(acc, fn.name).signature, sig2 |-> fn.signature]
          ELSE MergeChecked(StoreIfAbsent(acc, fn), Tail(e))

\* function_pattern.search(line) on the first line of a definition: the
\* pattern needs the parameter list closed on that line.
FunctionPatternMatches(text) == text.shape # "multisig"

\* A rewriter that carries every line over, the directives too.
AllLines(block_content) == block_content

\* The lines of the block that are carried over: every line that is no
\* import directive.
CarriedLines(block_content) == SelectSeq(block_content, LAMBDA it : it.kind # "imp")

\* The carried-over lines without the definitions that are local and imported.
FilterLines(result_lines, local_functions, imported_functions) ==
  IF local_functions # <<>> /\ imported_functions # <<>>
  THEN SelectSeq(result_lines,
                 LAMBDA it : ~(/\ it.kind = "def"
                               /\ FunctionPatternMatches(it.text)
                               /\ it.text.name \in Keys(imported_functions)
                               /\ it.text.name \in Keys(local_functions)))
  ELSE result_lines

\* A rewriter that takes no imported function for local: it wraps every one.
never_local(func, local_function_names) == FALSE

\* A function is local to the block being rewritten.
is_truly_local(func, local_function_names) == func.name \in local_function_names

\* A rewriter that puts the annotations of a function around its sentinels.
AnnotationsAroundSentinels(func, local_function_names) ==
  IF func.name \in local_function_names
  THEN func.pre_comments \o <<Def(func.full_text, TRUE)>> \o func.post_comments
  ELSE func.pre_comments
       \o <<Def(SentinelText(StartName(func.name)), TRUE), Def(func.full_text, TRUE),
            Def(SentinelText(StopName(func.name)), TRUE)>>
       \o func.post_comments

\* The lines emitted for one imported function: the function between its
\* annotations, and sentinels around that when it is not local.
EmittedFor(func, local_function_names) ==
  LET annotated == func.pre_comments \o <<Def(func.full_text, TRUE)>> \o func.post_comments
  IN IF is_truly_local(func, local_function_names)
     THEN annotated
     ELSE <<Def(SentinelText(StartName(func.name)), TRUE)>>
          \o annotated
          \o <<Def(SentinelText(StopName(func.name)), TRUE)>>

RECURSIVE EmitImported(_, _)
\* for func in imported_functions.values(): the lines of each, in dict order.
EmitImported(imported_functions, local_function_names) ==
  IF imported_functions = <<>> THEN <<>>
  ELSE EmittedFor(Head(imported_functions), local_function_names)
       \o EmitImported(Tail(imported_functions), local_function_names)

\* "\n".join(lines), as the lines of the text it gives: the text of no line
\* is one empty line.
JoinedLines(lines) == IF lines = <<>> THEN <<Blank("")>> ELSE lines

\* The imports of a block once the functions of its file's cycle group, if
\* the file is in a recorded one, have joined them.
WithCycleFunctions(fr, imported_functions) ==
  IF fr.cycle_group # {} /\ fr.current_file \in fr.cycle_group /\ fr.cycle_group \in GroupKeys
  THEN DictAddAbsent(imported_functions, GroupOf(fr.cycle_group))
  ELSE imported_functions

\* A rewriter that puts the imports behind the carried-over lines.
ImportsLast(fr, imported_functions) ==
  LET local_functions == extract_yul_functions(fr.block_content, fr.current_file)
      result_lines == FilterLines(CarriedLines(fr.block_content), local_functions,
                                  imported_functions)
  IN IF imported_functions # <<>>
     THEN JoinedLines(result_lines) \o EmitImported(imported_functions, Keys(local_functions))
     ELSE JoinedLines(result_lines)

\* The end of process_assembly_block: the functions of the active cycle
\* group join the imports, the local definitions that are imported leave the
\* carried-over lines, and the imports are put before them.
RewrittenBlock(fr, imported_functions) ==
  LET local_functions == extract_yul_functions(fr.block_content, fr.current_file)
      all_imported == WithCycleFunctions(fr, imported_functions)
      result_lines == FilterLines(CarriedLines(fr.block_content), local_functions, all_imported)
  IN IF all_imported # <<>>
     THEN EmitImported(all_imported, Keys(local_functions)) \o JoinedLines(result_lines)
     ELSE JoinedLines(result_lines)

\* A name of the current directive is resolved.
ProcessBlockImport ==
  /\ Running("process_assembly_block", "loop")
  /\ Top.dirs # <<>>
  /\ Top.k <= Len(Head(Top.dirs).names)
  /\ frames' = Append(Append(Callers, [Top EXCEPT !.pc = "wait"]),
                      ResolveImportFrame(Head(Top.dirs).names[Top.k], Head(Top.dirs).loc,
                                         Top.current_file, Top.cycle_group))
  /\ UNCHANGED <<walk, host, dir, files, processed_cache, cycle_groups, processing_stack, ret, results, top_calls>>

\* The functions the name resolved to join the directive's functions.
ProcessBlockResolved ==
  /\ Running("process_assembly_block", "wait")
  /\ ret.kind = "value"
  /\ frames' = Append(Callers, [Top EXCEPT !.pc = "loop", !.k = Top.k + 1,
                                           !.imported_funcs = DictAddAbsent(Top.imported_funcs, ret.value)])
  /\ ret' = NoRet
  /\ UNCHANGED <<walk, host, dir, files, processed_cache, cycle_groups, processing_stack, results, top_calls>>

\* All names of the directive are resolved: its functions join the block's
\* imports, or a signature mismatch is raised.
ProcessBlockMerge ==
  /\ Running("process_assembly_block", "loop")
  /\ Top.dirs # <<>>
  /\ Top.k > Len(Head(Top.dirs).names)
  /\ LET m == MergeChecked(Top.imported_functions, Top.imported_funcs)
     IN IF m.ok
        THEN /\ frames' = Append(Callers, [Top EXCEPT !.dirs = Tail(Top.dirs), !.k = 1,
                                                      !.imported_funcs = <<>>,
                                                      !.imported_functions = m.fns])
             /\ UNCHANGED ret
        ELSE /\ frames' = Callers
             /\ ret' = Raised(Mismatch(m.name, m.sig1, m.sig2))
  /\ UNCHANGED <<walk, host, dir, files, processed_cache, cycle_groups, processing_stack, results, top_calls>>

\* No directive is left: the rewritten block is returned.
ProcessBlockEmit ==
  /\ Running("process_assembly_block", "loop")
  /\ Top.dirs = <<>>
  /\ frames' = Callers
  /\ ret' = Returned(RewrittenBlock(Top, Top.imported_functions))
  /\ UNCHANGED <<walk, host, dir, files, processed_cache, cycle_groups, processing_stack, results, top_calls>>

(***************************************************************************)
(* resolve_import                                                          *)
(***************************************************************************)
IsSelf(import_path) == import_path = "self"

RECURSIVE NamesOf(_, _, _)
NamesOf(names, import_path, file_path) ==
  IF names = <<>> THEN <<>>
  ELSE <<[func_name |-> Head(names), import_path |-> import_path, file_path |-> file_path]>>
       \o NamesOf(Tail(names), import_path, file_path)

RECURSIVE DirectivesOf(_, _)
DirectivesOf(dirs, file_path) ==
  IF dirs = <<>> THEN <<>>
  ELSE NamesOf(Head(dirs).names, Head(dirs).loc, file_path) \o DirectivesOf(Tail(dirs), file_path)

RECURSIVE ImportsOf(_, _)
\* Every (name, location) a file's directives ask for, block by block, line
\* by line, name by name.
ImportsOf(blocks, file_path) ==
  IF blocks = <<>> THEN <<>>
  ELSE DirectivesOf(ImportItems(Head(blocks)), file_path) \o ImportsOf(Tail(blocks), file_path)

\* resolve_import returns the closure of func_name in all_functions, or raises
\* when func_name is not among `present`.
ReturnClosure(func_name, present, all_functions) ==
  IF func_name \notin Keys(present)
  THEN /\ frames' = Callers
       /\ ret' = Raised(NotFound(func_name, present))
  ELSE \E deps \in get_function_dependencies(func_name, all_functions) :
         /\ frames' = Callers
         /\ ret' = Returned(deps)

\* resolve_import once the target's content is at hand: a target in a recorded
\* cycle group gives the whole group, any other target the closure of the name
\* among the functions of its blocks.
ResolveFromContent(fr, target_file, processed_content) ==
  IF GroupsWith(target_file) # <<>>
  THEN LET target_cycle_functions == Head(GroupsWith(target_file)).fns
       IN IF fr.func_name \notin Keys(target_cycle_functions)
          THEN /\ frames' = Callers
               /\ ret' = Raised(NotFound(fr.func_name, target_cycle_functions))
          ELSE /\ frames' = Callers
               /\ ret' = Returned(target_cycle_functions)
  ELSE LET all_functions == ExtractAllBlocks(<<>>, find_assembly_blocks(processed_content),
                                             target_file)
       IN ReturnClosure(fr.func_name, all_functions, all_functions)

\* Entry of resolve_import.
ResolveImportEnter ==
  /\ Running("resolve_import", "enter")
  /\ LET fr == Top
         target_file == resolve_import_path(fr.import_path, fr.current_file)
     IN IF IsSelf(fr.import_path)
        THEN /\ frames' = Append(Callers,
                    [fr EXCEPT !.pc = "self",
                               !.todo = SelectSeq(ImportsOf(find_assembly_blocks(read_text(fr.current_file)),
                                                            fr.current_file),
                                                  LAMBDA r : ~IsSelf(r.import_path))])
             /\ UNCHANGED ret
        ELSE IF fr.cycle_group # {} /\ target_file \in fr.cycle_group
                /\ fr.cycle_group \in GroupKeys
        THEN ReturnClosure(fr.func_name, GroupOf(fr.cycle_group), GroupOf(fr.cycle_group))
        ELSE IF suffix(target_file) = ".presl"
        THEN /\ frames' = Append(Append(Callers, [fr EXCEPT !.pc = "processed"]),
                                 ProcessFileFrame(target_file, fr.cycle_group))
             /\ UNCHANGED ret
        ELSE IF ~exists(target_file)
        THEN /\ frames' = Callers
             /\ ret' = Raised(FileNotFound(target_file))
        ELSE ResolveFromContent(fr, target_file, read_text(target_file))
  /\ UNCHANGED <<walk, host, dir, files, processed_cache, cycle_groups, processing_stack, results, top_calls>>

\* process_file returned the target's processed content.
ResolveImportProcessed ==
  /\ Running("resolve_import", "processed")
  /\ ret.kind = "value"
  /\ ResolveFromContent(Top, resolve_import_path(Top.import_path, Top.current_file), ret.value)
  /\ UNCHANGED <<walk, host, dir, files, processed_cache, cycle_groups, processing_stack, results, top_calls>>

\* 'from self': an import of the current file from elsewhere is resolved to
\* gather the external dependencies.
ResolveSelfNext ==
  /\ Running("resolve_import", "self")
  /\ Top.todo # <<>>
  /\ frames' = Append(Append(Callers, [Top EXCEPT !.pc = "self_wait"]),
                      ResolveImportFrame(Head(Top.todo).func_name, Head(Top.todo).import_path,
                                         Top.current_file, Top.cycle_group))
  /\ UNCHANGED <<walk, host, dir, files, processed_cache, cycle_groups, processing_stack, ret, results, top_calls>>

ResolveSelfResolved ==
  /\ Running("resolve_import", "self_wait")
  /\ ret.kind = "value"
  /\ frames' = Append(Callers, [Top EXCEPT !.pc = "self", !.todo = Tail(Top.todo),
                                           !.external_deps = DictUpdate(Top.external_deps, ret.value)])
  /\ ret' = NoRet
  /\ UNCHANGED <<walk, host, dir, files, processed_cache, cycle_groups, processing_stack, results, top_calls>>

\* 'from self': the closure of the name among the functions of all blocks of
\* the current file and the external dependencies.
ResolveSelfDone ==
  /\ Running("resolve_import", "self")
  /\ Top.todo = <<>>
  /\ LET all_functions == ExtractAllBlocks(<<>>, find_assembly_blocks(read_text(Top.current_file)),
                                           Top.current_file)
         all_functions_with_deps == DictUpdate(all_functions, Top.external_deps)
     IN ReturnClosure(Top.func_name, all_functions, all_functions_with_deps)
  /\ UNCHANGED <<walk, host, dir, files, processed_cache, cycle_groups, processing_stack, results, top_calls>>

(***************************************************************************)
(* collect_all_functions_in_cycle, collect_external_dependencies_for_cycle *)
(***************************************************************************)
RECURSIVE CycleDefinitions(_)
\* The functions defined in the blocks of the files, file by file.
CycleDefinitions(order) ==
  IF order = <<>> THEN <<>>
  ELSE LET RECURSIVE Blocks(_)
           Blocks(blocks) ==
             IF blocks = <<>> THEN <<>>
             ELSE extract_yul_functions(Head(blocks), Head(order)) \o Blocks(Tail(blocks))
       IN Blocks(find_assembly_blocks(read_text(Head(order)))) \o CycleDefinitions(Tail(order))

RECURSIVE CycleImports(_, _)
\* The imports of the files from outside the cycle, file by file.
CycleImports(order, cycle_files) ==
  IF order = <<>> THEN <<>>
  ELSE SelectSeq(ImportsOf(find_assembly_blocks(read_text(Head(order))), Head(order)),
                 LAMBDA r : /\ ~IsSelf(r.import_path)
                            /\ resolve_import_path(r.import_path, r.file_path) \notin cycle_files)
       \o CycleImports(Tail(order), cycle_files)

\* Entry of collect_all_functions_in_cycle: the definitions of the member
\* files are united, a name with two signatures raises.  cycle_files is a
\* Python set: the order of its iteration is not determined by the code.
CollectEnter ==
  /\ Running("collect_all_functions_in_cycle", "enter")
  /\ \E order \in Orders({f \in Top.cycle_files : exists(f)}) :
       LET m == MergeChecked(<<>>, CycleDefinitions(order))
       IN IF m.ok
          THEN /\ frames' = Append(Callers, [Top EXCEPT !.pc = "external",
                                                        !.all_functions = m.fns,
                                                        !.todo = CycleImports(order, Top.cycle_files)])
               /\ UNCHANGED ret
          ELSE /\ frames' = Callers
               /\ ret' = Raised(CycleConflict(m.name, m.sig1, m.sig2))
  /\ UNCHANGED <<walk, host, dir, files, processed_cache, cycle_groups, processing_stack, results, top_calls>>

\* An import from outside the cycle is resolved, with no cycle group.
CollectNext ==
  /\ Running("collect_all_functions_in_cycle", "external")
  /\ Top.todo # <<>>
  /\ frames' = Append(Append(Callers, [Top EXCEPT !.pc = "external_wait"]),
                      ResolveImportFrame(Head(Top.todo).func_name, Head(Top.todo).import_path,
                                         Head(Top.todo).file_path, {}))
  /\ UNCHANGED <<walk, host, dir, files, processed_cache, cycle_groups, processing_stack, ret, results, top_calls>>

CollectResolved ==
  /\ Running("collect_all_functions_in_cycle", "external_wait")
  /\ ret.kind = "value"
  /\ frames' = Append(Callers, [Top EXCEPT !.pc = "external", !.todo = Tail(Top.todo),
                                           !.external_functions =
                                              DictAddAbsent(Top.external_functions, ret.value)])
  /\ ret' = NoRet
  /\ UNCHANGED <<walk, host, dir, files, processed_cache, cycle_groups, processing_stack, results, top_calls>>

\* all_functions.update(external_deps); return all_functions
CollectDone ==
  /\ Running("collect_all_functions_in_cycle", "external")
  /\ Top.todo = <<>>
  /\ frames' = Callers
  /\ ret' = Returned(DictUpdate(Top.all_functions, Top.external_functions))
  /\ UNCHANGED <<walk, host, dir, files, processed_cache, cycle_groups, processing_stack, results, top_calls>>

(***************************************************************************)
(* Exceptions.                                                             *)
(***************************************************************************)
\* The activations that wait inside a try: ... except Exception: pass
Catches(fr) ==
  \/ fr.op = "resolve_import" /\ fr.pc = "self_wait"
  \/ fr.op = "collect_all_functions_in_cycle" /\ fr.pc = "external_wait"

Handlers == {i \in 1..Len(frames) : Catches(frames[i])}

\* An exception reaches a try of the collection of external dependencies:
\* it is dropped and the loop goes on with the next name.
ExceptionSuppressed ==
  /\ ret.kind = "exc"
  /\ Handlers # {}
  /\ LET h == CHOOSE i \in Handlers : \A j \in Handlers : j <= i
         back == IF frames[h].op = "resolve_import" THEN "self" ELSE "external"
     IN frames' = Append(SubSeq(frames, 1, h - 1),
                         [frames[h] EXCEPT !.pc = back, !.todo = Tail(frames[h].todo)])
  /\ ret' = NoRet
  /\ UNCHANGED <<walk, host, dir, files, processed_cache, cycle_groups, processing_stack, results, top_calls>>

\* The outcome of a top-level call.
Outcome(file_path, kind, content, exc) ==
  [file_path |-> file_path, kind |-> kind, content |-> content, exc |-> exc]

Finished(outcome) == [results EXCEPT ![Len(results)] = outcome]

\* An exception no try catches ends the top-level call.
ExceptionPropagated ==
  /\ ret.kind = "exc"
  /\ Handlers = {}
  /\ frames' = <<>>
  /\ ret' = NoRet
  /\ results' = Finished(Outcome(results[Len(results)].file_path, "raised", <<>>, ret.exc))
  /\ UNCHANGED <<walk, host, dir, files, processed_cache, cycle_groups, processing_stack, top_calls>>

\* The nesting of process_file passed the bound: the run is cut off, as the
\* interpreter's recursion limit cuts it off.
RecursionLimit ==
  /\ Running("process_file", "enter")
  /\ Depth > MaxDepth
  /\ frames' = <<>>
  /\ ret' = NoRet
  /\ results' = Finished(Outcome(results[Len(results)].file_path, "RecursionError", <<>>, NoExc))
  /\ UNCHANGED <<walk, host, dir, files, processed_cache, cycle_groups, processing_stack, top_calls>>

(***************************************************************************)
(* The callers of process_file: preprocess_file, preprocess_directory.     *)
(***************************************************************************)
Idle == frames = <<>> /\ ret.kind = "none"

Cut == results # <<>> /\ results[Len(results)].kind = "RecursionError"

\* process_file(file_path) is called on the instance, with a fresh stack.
TopLevelCall(file_path) ==
  /\ Idle
  /\ ~Cut
  /\ top_calls < MaxCalls
  /\ top_calls' = top_calls + 1
  /\ processing_stack' = <<>>
  /\ frames' = <<ProcessFileFrame(file_path, {})>>
  /\ results' = Append(results, Outcome(file_path, "running", <<>>, NoExc))
  /\ UNCHANGED <<walk, host, dir, files, processed_cache, cycle_groups, ret>>

\* The top-level call returns its content.
TopLevelReturn ==
  /\ frames = <<>>
  /\ ret.kind = "value"
  /\ ret' = NoRet
  /\ results' = Finished(Outcome(results[Len(results)].file_path, "returned", ret.value, NoExc))
  /\ UNCHANGED <<walk, host, dir, files, processed_cache, cycle_groups, processing_stack, frames, top_calls>>

(***************************************************************************)
(* The input files.                                                        *)
(***************************************************************************)
\* A definition as an input file writes it, before its place is known.
Fun(name, signature, calls, shape) ==
  [kind |-> "def", name |-> name, signature |-> signature, calls |-> calls, shape |-> shape]

\* A block as a file holds it: the line of `assembly {` ends after the
\* brace, and the closing brace has a line of its own, indented.
InBraces(items) == <<Blank("")>> \o items \o <<Blank("        ")>>

\* The files on disk: every definition gets the file and the block it is in.
OnDisk(written) ==
  [f \in DOMAIN written |->
    [b \in 1..Len(written[f]) |->
      InBraces([i \in 1..Len(written[f][b]) |->
        LET it == written[f][b][i]
        IN IF it.kind = "def"
           THEN Def(DefText(it.name, it.signature, it.calls, it.shape, f, b), FALSE)
           ELSE it])]]

\* A definition whose signature and opening brace are on one line and whose
\* body follows on the next lines.
Std(name, calls) == Fun(name, "(x) -> r", calls, "std")

\* What a.presl may hold.
AContents ==
  { \* a imports from b
    << << Imp(<<"funcB">>, "b"), Std("funcA", {}) >> >>,
    \* the same, the signature of funcA on several lines
    << << Imp(<<"funcB">>, "b"), Fun("funcA", "(x) -> r", {}, "multisig") >> >>,
    \* the same, and a second block without directive
    << << Imp(<<"funcB">>, "b"), Std("funcA", {}) >>, << Std("funcA2", {}) >> >>,
    \* a imports, under its own file name, a name it does not define
    << << Imp(<<"nope">>, "a"), Std("funcA", {}) >> >>,
    \* a imports from c a name c does not define
    << << Imp(<<"nope">>, "c"), Std("funcA", {}) >> >>,
    \* a imports helper from b and defines a helper itself
    << << Imp(<<"helper">>, "b"), Std("funcA", {"helper"}), Std("helper", {}) >> >>,
    \* a imports from c, and its second block imports from self
    << << Imp(<<"funcC">>, "c"), Std("funcA", {"funcC"}) >>,
       << Imp(<<"funcA">>, "self"), Std("funcA2", {"funcA"}) >> >>,
    \* a imports from c and from b, and defines a helper
    << << Imp(<<"funcC">>, "c"), Imp(<<"funcB">>, "b"), Std("funcA", {}), Std("helper", {}) >> >>,
    \* a imports from b; funcA stands between a start and an end annotation
    << << Imp(<<"funcB">>, "b"), Cmt("start", "cyclomatic-complexity"), Std("funcA", {}),
          Cmt("end", "cyclomatic-complexity") >> >>,
    \* a imports two names from c with one directive
    << << Imp(<<"funcC", "simple">>, "c"), Std("funcA", {"funcC"}) >> >>,
    \* a imports nothing from outside; its second block imports from self
    << << Std("funcA", {}) >>,
       << Imp(<<"funcA">>, "self"), Std("funcA2", {"funcA"}) >> >> }

\* What b.presl may hold.
BContents ==
  { \* b imports from a
    << << Imp(<<"funcA">>, "a"), Std("funcB", {}) >> >>,
    \* b imports from itself, under its file name, and from a
    << << Imp(<<"funcB">>, "b"), Imp(<<"funcA">>, "a"), Std("funcB", {}) >> >>,
    \* b imports from itself, under its file name, and from c
    << << Imp(<<"funcB">>, "b"), Imp(<<"funcC">>, "c"), Std("funcB", {}) >> >>,
    \* b imports from a and defines helper with another signature than a
    << << Imp(<<"funcA">>, "a"), Std("funcB", {}), Fun("helper", "(x, y) -> r", {}, "std") >> >>,
    \* b imports nothing and defines helper with the signature a uses
    << << Std("funcB", {"helper"}), Std("helper", {}) >> >>,
    \* b imports nothing and defines helper with another signature than a
    << << Std("funcB", {"helper"}), Fun("helper", "(x, y) -> r", {}, "std") >> >> }

\* What c.presl may hold.
CContents ==
  { \* c imports from b
    << << Imp(<<"funcB">>, "b"), Std("funcC", {}) >> >>,
    \* c imports from a
    << << Imp(<<"funcA">>, "a"), Std("funcC", {}) >> >>,
    \* c imports nothing; funcC calls inner, nothing calls unrelated
    << << Std("funcC", {"inner"}), Std("inner", {}), Std("unrelated", {}) >> >>,
    \* the same, funcC written on one line
    << << Fun("funcC", "(x) -> r", {"inner"}, "oneline"), Std("inner", {}), Std("unrelated", {}) >> >>,
    \* c imports from the plain .sol file, and from a file that is not there
    << << Imp(<<"util">>, "u.sol"), Imp(<<"funcZ">>, "zz"), Std("funcC", {"util"}) >> >>,
    \* c imports from itself, under its file name
    << << Imp(<<"funcC">>, "c"), Std("funcC", {}) >> >>,
    \* c imports nothing; funcC calls a helper with another signature than a
    << << Std("funcC", {"helper"}), Fun("helper", "(x, y) -> r", {}, "std") >> >>,
    \* c imports nothing; funcC stands between a start and an end annotation,
    \* simple has a next-line annotation
    << << Cmt("start", "cyclomatic-complexity"), Std("funcC", {}),
          Cmt("end", "cyclomatic-complexity"),
          Cmt("next-line", "write-after-write"), Std("simple", {}) >> >> }

\* What d.presl holds, when it is there: d imports from b.
DContent == << << Imp(<<"funcB">>, "b"), Std("funcD", {}) >> >>

\* The plain Solidity file: read as it is, never processed.
SolContent == << << Std("util", {}) >> >>

\* The directories process_file is run in: a.presl, b.presl, c.presl and
\* u.sol, with or without d.presl.
Configs ==
  LET ThreeFiles == { ("a" :> ca) @@ ("b" :> cb) @@ ("c" :> cc) @@ ("u.sol" :> SolContent)
                        : ca \in AContents, cb \in BContents, cc \in CContents }
  IN { OnDisk(written) : written \in ThreeFiles \cup { w @@ ("d" :> DContent) : w \in ThreeFiles } }

(***************************************************************************)
(* The specification.                                                      *)
(***************************************************************************)
\* A new instance, with nothing in progress.
Fresh ==
  /\ processed_cache = <<>>
  /\ cycle_groups = <<>>
  /\ processing_stack = <<>>
  /\ frames = <<>>
  /\ ret = NoRet
  /\ results = <<>>
  /\ top_calls = 0

\* No host-language text is being rewritten.
NoHost == [before |-> <<>>, after |-> <<>>]

\* preprocess_directory is not running.
NoDir == [pc |-> "off"]

\* get_function_dependencies is not called on its own.
NoWalk == [pc |-> "off"]

InitWith(configs) ==
  /\ files \in configs
  /\ Fresh
  /\ host = NoHost
  /\ dir = NoDir
  /\ walk = NoWalk

Init == InitWith(Configs)

\* The files process_file is called on from outside.
EntryFiles == {f \in DOMAIN files : suffix(f) = ".presl"}

Next ==
  \/ \E f \in EntryFiles : TopLevelCall(f)
  \/ TopLevelReturn
  \/ ProcessFileEnter
  \/ ProcessFileCollected
  \/ ProcessFileNextBlock
  \/ ProcessFileBlockDone
  \/ ProcessFileFinish
  \/ ProcessBlockImport
  \/ ProcessBlockResolved
  \/ ProcessBlockMerge
  \/ ProcessBlockEmit
  \/ ResolveImportEnter
  \/ ResolveImportProcessed
  \/ ResolveSelfNext
  \/ ResolveSelfResolved
  \/ ResolveSelfDone
  \/ CollectEnter
  \/ CollectNext
  \/ CollectResolved
  \/ CollectDone
  \/ ExceptionSuppressed
  \/ ExceptionPropagated
  \/ RecursionLimit

Spec == Init /\ [][Next]_vars

(***************************************************************************)
(* Runs on fresh instances: the preprocessor is started again on the same  *)
(* files, as every invocation of the command-line tool does.               *)
(***************************************************************************)
\* YulPreprocessor(): a new instance, with an empty cache and an empty
\* cycle-group table, replaces the one whose call has returned.  The files
\* stay as they are, and so does the record of the outcomes.
NewInstance ==
  /\ Idle
  /\ ~Cut
  /\ results # <<>>
  /\ Last(results).kind = "returned"
  /\ Len(results) < MaxRuns
  /\ processed_cache' = <<>>
  /\ cycle_groups' = <<>>
  /\ processing_stack' = <<>>
  /\ top_calls' = 0
  /\ UNCHANGED <<walk, host, dir, files, frames, ret, results>>

\* The directories the runs are made in: the ones without d.presl.
RunConfigs == {c \in Configs : "d" \notin DOMAIN c}

InitRuns == InitWith(RunConfigs)

NextRuns ==
  \/ \E f \in EntryFiles : top_calls < RunCalls /\ TopLevelCall(f)
  \/ NewInstance
  \/ TopLevelReturn
  \/ ProcessFileEnter
  \/ ProcessFileCollected
  \/ ProcessFileNextBlock
  \/ ProcessFileBlockDone
  \/ ProcessFileFinish
  \/ ProcessBlockImport
  \/ ProcessBlockResolved
  \/ ProcessBlockMerge
  \/ ProcessBlockEmit
  \/ ResolveImportEnter
  \/ ResolveImportProcessed
  \/ ResolveSelfNext
  \/ ResolveSelfResolved
  \/ ResolveSelfDone
  \/ CollectEnter
  \/ CollectNext
  \/ CollectResolved
  \/ CollectDone
  \/ ExceptionSuppressed
  \/ ExceptionPropagated
  \/ RecursionLimit

\* Every instance makes RunCalls top-level calls, MaxRuns instances are made.
SpecRuns == InitRuns /\ [][NextRuns]_vars

(***************************************************************************)
(* The suffix rewrite of process_file: re.sub over the whole content with  *)
(*   (import\s+(?:.*?\s+from\s+)?["'])([^"']*?)\.presl(["'])              *)
(* A host-language text is abstracted to its import statements.            *)
(***************************************************************************)
\* An import statement of the host language:
\*   form    "bare"      import "<path><ext>";
\*           "selective" import {<names>} from "<path><ext>";
\*   gap     the white space after the word import: a space or a line break
\*   layout  the names of a selective import are on the line of the word
\*           import ("oneline"), or the list is broken over lines
\*           ("multiline"), as a formatter breaks a long list
\*   from    the white space between the word from and the path
\*   path    the path up to its last suffix (./X.t for ./X.t.presl)
\*   ext     the last suffix of the path
Statement(form, gap, layout, from, path, ext) ==
  [form |-> form, gap |-> gap, layout |-> layout, from |-> from, path |-> path, ext |-> ext]

\* The pattern matches the statement.  \s+ takes a space as well as a line
\* break; .*? takes no line break, so the optional group reaches the word
\* from only when it is on the line the names begin on.
PatternMatches(st) ==
  /\ st.ext = ".presl"
  /\ st.gap \in {"space", "newline"}
  /\ st.form = "selective" => st.layout = "oneline"
  /\ st.from \in {"space", "newline"}

\* \1\2.post.sol\3 for a statement that matches; any other stays.
Substitute(st) == IF PatternMatches(st) THEN [st EXCEPT !.ext = ".post.sol"] ELSE st

\* re.sub over a text with the statements sts.
RewriteSuffix(sts) == [i \in 1..Len(sts) |-> Substitute(sts[i])]

\* The import statements of the texts that are rewritten.
Statements ==
  {Statement("bare", gap, "oneline", "space", path, ext)
     : gap \in {"space", "newline"}, path \in {"./X", "./X.t"}, ext \in {".presl", ".sol"}}
  \cup {Statement("selective", gap, layout, from, "./X", ext)
          : gap \in {"space", "newline"}, layout \in {"oneline", "multiline"},
            from \in {"space", "newline"}, ext \in {".presl", ".sol"}}

\* The texts: one import statement or two.
HostTexts == UNION {[1..n -> Statements] : n \in 1..MaxStatements}

InitHost ==
  /\ files = <<>>
  /\ Fresh
  /\ host \in {[before |-> t, after |-> <<>>] : t \in HostTexts}
  /\ dir = NoDir
  /\ walk = NoWalk

\* process_file rewrites the suffixes in the content it is about to return.
HostRewrite ==
  /\ host.before # <<>>
  /\ host.after = <<>>
  /\ host' = [host EXCEPT !.after = RewriteSuffix(host.before)]
  /\ UNCHANGED <<walk, files, processed_cache, cycle_groups, processing_stack, frames, ret,
                 results, top_calls, dir>>

NextHost == HostRewrite

SpecHost == InitHost /\ [][NextHost]_vars

(***************************************************************************)
(* preprocess_directory, should_skip_file, format_with_forge               *)
(***************************************************************************)
\* The comment a file may carry at line `line`: // does<sep>not<sep>compile,
\* in capitals or not.  Line 0: the file has no such comment.
Marker(line, sep, capitals) == [line |-> line, sep |-> sep, capitals |-> capitals]
NoMarker == Marker(0, "", FALSE)

\* for _ in range(10): the lines should_skip_file reads.
SkipLines == 10

\* re.sub(r"\s+", "", line.strip().lower()): white space goes, capitals go,
\* any other separator stays.
Normalized(marker) == [marker EXCEPT !.sep = IF @ = " " THEN "" ELSE @, !.capitals = FALSE]

\* "does-not-compile" in normalized or "doesnotcompile" in normalized, for
\* one of the first lines.
should_skip_file(marker) ==
  /\ marker.line \in 1..SkipLines
  /\ Normalized(marker).sep \in {"-", ""}

\* The ways a run of forge fmt ends: its exit code, or what subprocess.run
\* raises.
ForgeOutcomes == {"exit 0", "exit 1", "FileNotFoundError", "TimeoutExpired", "Exception"}

\* format_with_forge: True when forge ran and returned 0, False otherwise;
\* no exception leaves it.
format_with_forge(forge) == forge = "exit 0"

\* A return code that reports success for failure.
ReturnCodeSwapped(failed) == IF failed THEN 0 ELSE 1

\* return 1 if failed else 0
ReturnCode(failed) == IF failed THEN 1 ELSE 0

\* sorted(dir_path.rglob("*.presl"))
SortedPaths == SelectSeq(<<"a", "b", "c", "d">>, LAMBDA f : f \in DOMAIN files /\ suffix(f) = ".presl")

\* The markers of a directory: a.presl may carry one, no other file does.
Markers ==
  {NoMarker, Marker(1, "-", FALSE), Marker(SkipLines, " ", TRUE),
   Marker(SkipLines + 1, "-", FALSE), Marker(1, "_", FALSE)}

DirFrame(markers) ==
  [pc |-> "loop", markers |-> markers, presl_files |-> <<>>, started |-> FALSE,
   attempted |-> <<>>, output_files |-> <<>>, unwritten |-> {}, failed |-> FALSE,
   formatter |-> "not run", code |-> 0]

InitDir ==
  /\ files \in RunConfigs
  /\ Fresh
  /\ host = NoHost
  /\ dir \in {DirFrame([f \in {"a", "b", "c", "d"} |-> IF f = "a" THEN m ELSE NoMarker])
               : m \in Markers}
  /\ walk = NoWalk

\* Entry of preprocess_directory: the .presl files are listed.
DirList ==
  /\ dir.pc = "loop"
  /\ ~dir.started
  /\ dir' = [dir EXCEPT !.started = TRUE, !.presl_files = SortedPaths]
  /\ UNCHANGED <<walk, files, processed_cache, cycle_groups, processing_stack, frames, ret,
                 results, top_calls, host>>

\* The next file carries the marker: it is passed over.
DirSkip ==
  /\ dir.pc = "loop"
  /\ dir.started
  /\ dir.presl_files # <<>>
  /\ should_skip_file(dir.markers[Head(dir.presl_files)])
  /\ dir' = [dir EXCEPT !.presl_files = Tail(dir.presl_files)]
  /\ UNCHANGED <<walk, files, processed_cache, cycle_groups, processing_stack, frames, ret,
                 results, top_calls, host>>

\* process_file(pre_file) is called inside the try, with a fresh stack.
DirProcess ==
  /\ dir.pc = "loop"
  /\ dir.started
  /\ dir.presl_files # <<>>
  /\ ~should_skip_file(dir.markers[Head(dir.presl_files)])
  /\ Idle
  /\ dir' = [dir EXCEPT !.pc = "call", !.attempted = Append(dir.attempted, Head(dir.presl_files))]
  /\ top_calls' = top_calls + 1
  /\ processing_stack' = <<>>
  /\ frames' = <<ProcessFileFrame(Head(dir.presl_files), {})>>
  /\ results' = Append(results, Outcome(Head(dir.presl_files), "running", <<>>, NoExc))
  /\ UNCHANGED <<walk, files, processed_cache, cycle_groups, ret, host>>

\* process_file returned: the output is written and listed.
DirWritten ==
  /\ dir.pc = "call"
  /\ Idle
  /\ Last(results).kind = "returned"
  /\ dir' = [dir EXCEPT !.pc = "loop", !.presl_files = Tail(dir.presl_files),
                        !.output_files = Append(dir.output_files, Head(dir.presl_files))]
  /\ UNCHANGED <<walk, files, processed_cache, cycle_groups, processing_stack, frames, ret,
                 results, top_calls, host>>

\* process_file returned and write_text raised (an OSError is an Exception).
DirWriteFailed ==
  /\ dir.pc = "call"
  /\ Idle
  /\ Last(results).kind = "returned"
  /\ dir' = [dir EXCEPT !.pc = "loop", !.presl_files = Tail(dir.presl_files),
                        !.unwritten = dir.unwritten \cup {Head(dir.presl_files)},
                        !.failed = TRUE]
  /\ UNCHANGED <<walk, files, processed_cache, cycle_groups, processing_stack, frames, ret,
                 results, top_calls, host>>

\* except Exception: process_file raised (a RecursionError is an Exception).
DirFailed ==
  /\ dir.pc = "call"
  /\ Idle
  /\ Last(results).kind \in {"raised", "RecursionError"}
  /\ dir' = [dir EXCEPT !.pc = "loop", !.presl_files = Tail(dir.presl_files),
                        !.failed = TRUE]
  /\ UNCHANGED <<walk, files, processed_cache, cycle_groups, processing_stack, frames, ret,
                 results, top_calls, host>>

\* After the loop: the outputs are formatted, if asked for and if there are
\* any, and the code is returned.
DirFinish ==
  /\ dir.pc = "loop"
  /\ dir.started
  /\ dir.presl_files = <<>>
  /\ \E format_output \in BOOLEAN : \E forge \in ForgeOutcomes :
        dir' = [dir EXCEPT !.pc = "done",
                           !.formatter = IF format_output /\ dir.output_files # <<>>
                                         THEN IF format_with_forge(forge)
                                              THEN "formatted" ELSE "failed"
                                         ELSE "not run",
                           !.code = ReturnCode(dir.failed)]
  /\ UNCHANGED <<walk, files, processed_cache, cycle_groups, processing_stack, frames, ret,
                 results, top_calls, host>>

NextDir ==
  \/ DirList
  \/ DirSkip
  \/ DirProcess
  \/ DirWritten
  \/ DirWriteFailed
  \/ DirFailed
  \/ DirFinish
  \/ TopLevelReturn
  \/ ProcessFileEnter
  \/ ProcessFileCollected
  \/ ProcessFileNextBlock
  \/ ProcessFileBlockDone
  \/ ProcessFileFinish
  \/ ProcessBlockImport
  \/ ProcessBlockResolved
  \/ ProcessBlockMerge
  \/ ProcessBlockEmit
  \/ ResolveImportEnter
  \/ ResolveImportProcessed
  \/ ResolveSelfNext
  \/ ResolveSelfResolved
  \/ ResolveSelfDone
  \/ CollectEnter
  \/ CollectNext
  \/ CollectResolved
  \/ CollectDone
  \/ ExceptionSuppressed
  \/ ExceptionPropagated
  \/ RecursionLimit

SpecDir == InitDir /\ [][NextDir]_vars

(***************************************************************************)
(* A directive with several names, and the same names with a directive     *)
(* each: the file is processed as written, then written anew with every    *)
(* directive split and processed by a new instance.                        *)
(***************************************************************************)
\* What a.presl may hold when a directive of it lists two names.
ListingAContents ==
  { << << Imp(<<"funcC", "simple">>, "c"), Std("funcA", {"funcC"}) >> >>,
    << << Imp(<<"funcB", "helper">>, "b"), Std("funcA", {"helper"}), Std("helper", {}) >> >>,
    << << Imp(<<"helper", "funcB">>, "b"), Std("funcA", {"helper"}) >> >>,
    << << Imp(<<"funcC", "helper">>, "c"), Std("funcA", {"helper"}), Std("helper", {}) >> >>,
    << << Imp(<<"funcC", "inner">>, "c"), Imp(<<"funcB">>, "b"), Std("funcA", {}) >> >>,
    << << Imp(<<"funcC", "funcC">>, "c"), Std("funcA", {}) >> >>,
    << << Imp(<<"funcC">>, "c"), Std("funcA", {"funcC"}), Std("helper", {}) >>,
       << Imp(<<"helper", "funcA">>, "self"), Std("funcA2", {"funcA"}) >> >> }

ListingConfigs ==
  { OnDisk(("a" :> ca) @@ ("b" :> cb) @@ ("c" :> cc) @@ ("u.sol" :> SolContent))
      : ca \in ListingAContents, cb \in BContents, cc \in CContents }

RECURSIVE SplitDirectives(_)
\* The lines of a block with `// import n1, n2 from L` written as
\* `// import n1 from L`, `// import n2 from L`.
SplitDirectives(block) ==
  IF block = <<>> THEN <<>>
  ELSE LET it == Head(block)
       IN (IF it.kind = "imp"
           THEN [k \in 1..Len(it.names) |-> Imp(<<it.names[k]>>, it.loc)]
           ELSE <<it>>) \o SplitDirectives(Tail(block))

\* Some directive of some file lists several names.
Listing(fs) ==
  \E f \in DOMAIN fs : \E b \in 1..Len(fs[f]) : \E i \in 1..Len(fs[f][b]) :
     fs[f][b][i].kind = "imp" /\ Len(fs[f][b][i].names) > 1

\* The call on the files as written has ended: they are written anew, every
\* directive with one name, and a new instance is made for them.
WriteSplit ==
  /\ Idle
  /\ Len(results) = 1
  /\ results[1].kind \in {"returned", "raised"}
  /\ Listing(files)
  /\ files' = [f \in DOMAIN files |->
                [b \in 1..Len(files[f]) |-> SplitDirectives(files[f][b])]]
  /\ processed_cache' = <<>>
  /\ cycle_groups' = <<>>
  /\ processing_stack' = <<>>
  /\ top_calls' = 0
  /\ UNCHANGED <<walk, host, dir, frames, ret, results>>

\* One call on each instance, the second on the file of the first.
FormCall(file_path) ==
  /\ top_calls = 0
  /\ results # <<>> => (~Listing(files) /\ Len(results) = 1 /\ file_path = results[1].file_path)
  /\ TopLevelCall(file_path)

InitForms == InitWith(ListingConfigs)

NextForms ==
  \/ \E f \in EntryFiles : FormCall(f)
  \/ WriteSplit
  \/ TopLevelReturn
  \/ ProcessFileEnter
  \/ ProcessFileCollected
  \/ ProcessFileNextBlock
  \/ ProcessFileBlockDone
  \/ ProcessFileFinish
  \/ ProcessBlockImport
  \/ ProcessBlockResolved
  \/ ProcessBlockMerge
  \/ ProcessBlockEmit
  \/ ResolveImportEnter
  \/ ResolveImportProcessed
  \/ ResolveSelfNext
  \/ ResolveSelfResolved
  \/ ResolveSelfDone
  \/ CollectEnter
  \/ CollectNext
  \/ CollectResolved
  \/ CollectDone
  \/ ExceptionSuppressed
  \/ ExceptionPropagated
  \/ RecursionLimit

SpecForms == InitForms /\ [][NextForms]_vars

(***************************************************************************)
(* A file on a new instance and on a used one: process_file is called on   *)
(* a file by a new instance; then a second instance is made, is called on  *)
(* another file, and then on the first file.                               *)
(***************************************************************************)
\* The last top-level call has ended, with content or with an exception.
CallEnded == Idle /\ results # <<>> /\ Last(results).kind \in {"returned", "raised"}

\* YulPreprocessor(): the second instance.
SecondInstance ==
  /\ CallEnded
  /\ Len(results) = 1
  /\ top_calls = 1
  /\ processed_cache' = <<>>
  /\ cycle_groups' = <<>>
  /\ processing_stack' = <<>>
  /\ top_calls' = 0
  /\ UNCHANGED <<walk, host, dir, files, frames, ret, results>>

\* The calls: the first instance on any file; the second on another file,
\* and when that call has ended on the file of the first.
HistoryCall(file_path) ==
  /\ \/ results = <<>>
     \/ Len(results) = 1 /\ top_calls = 0 /\ file_path # results[1].file_path
     \/ Len(results) = 2 /\ CallEnded /\ file_path = results[1].file_path
  /\ TopLevelCall(file_path)

InitHistory == InitWith(RunConfigs)

NextHistory ==
  \/ \E f \in EntryFiles : HistoryCall(f)
  \/ SecondInstance
  \/ TopLevelReturn
  \/ ProcessFileEnter
  \/ ProcessFileCollected
  \/ ProcessFileNextBlock
  \/ ProcessFileBlockDone
  \/ ProcessFileFinish
  \/ ProcessBlockImport
  \/ ProcessBlockResolved
  \/ ProcessBlockMerge
  \/ ProcessBlockEmit
  \/ ResolveImportEnter
  \/ ResolveImportProcessed
  \/ ResolveSelfNext
  \/ ResolveSelfResolved
  \/ ResolveSelfDone
  \/ CollectEnter
  \/ CollectNext
  \/ CollectResolved
  \/ CollectDone
  \/ ExceptionSuppressed
  \/ ExceptionPropagated
  \/ RecursionLimit

SpecHistory == InitHistory /\ [][NextHistory]_vars

(***************************************************************************)
(* get_function_dependencies on its own: the universe is what              *)
(* extract_yul_functions finds in one block, and the loop of the function  *)
(* is run step by step.                                                    *)
(***************************************************************************)
\* The names the blocks define and call, in the order they are written in.
DepOrder == <<"f", "g", "h">>
DepNames == Range(DepOrder)

\* The block that defines the names of U, each with the calls and in the
\* shape that w gives it.
DepBlock(U, w) ==
  LET names == SelectSeq(DepOrder, LAMBDA n : n \in U)
  IN InBraces([i \in 1..Len(names) |->
                Def(DefText(names[i], "(x) -> r", w[names[i]].calls, w[names[i]].shape, "t", 1),
                    FALSE)])

\* The shapes that differ in the body extract_yul_functions keeps: the body on
\* lines of its own, and the whole definition on one line.
DepShapes == {"std", "oneline"}

\* Every block over these names: any of them defined or not, calling any of
\* them (itself and names the block does not define included), in either
\* shape.
DepBlocks(names) ==
  UNION {{DepBlock(U, w) : w \in [U -> [calls : SUBSET names, shape : DepShapes]]}
         : U \in SUBSET names}

\* get_function_dependencies(func_name, all_functions) has been called.
WalkFrame(block, func_name) ==
  [pc |-> "enter", block |-> block, func_name |-> func_name,
   all_functions |-> extract_yul_functions(block, "t"),
   to_process |-> <<>>, processed |-> {}, result |-> <<>>]

InitDeps ==
  /\ files = <<>>
  /\ Fresh
  /\ host = NoHost
  /\ dir = NoDir
  /\ walk \in {WalkFrame(block, func_name) : block \in DepBlocks(DepNames), func_name \in DepNames}

\* if func_name not in all_functions: return {}; else the work list starts
\* with func_name.
WalkEnter ==
  /\ walk.pc = "enter"
  /\ walk' = IF walk.func_name \notin Keys(walk.all_functions)
             THEN [walk EXCEPT !.pc = "done"]
             ELSE [walk EXCEPT !.pc = "loop", !.to_process = <<walk.func_name>>]
  /\ UNCHANGED <<files, processed_cache, cycle_groups, processing_stack, frames, ret,
                 results, top_calls, host, dir>>

\* current = to_process.pop(); if current in processed: continue
WalkSkip ==
  /\ walk.pc = "loop"
  /\ walk.to_process # <<>>
  /\ Last(walk.to_process) \in walk.processed
  /\ walk' = [walk EXCEPT !.to_process = SubSeq(walk.to_process, 1, Len(walk.to_process) - 1)]
  /\ UNCHANGED <<files, processed_cache, cycle_groups, processing_stack, frames, ret,
                 results, top_calls, host, dir>>

\* current is new: it joins processed and the result, and the functions its
\* body calls that are not processed go on the work list, in the order the
\* set of them is iterated.
WalkVisit ==
  /\ walk.pc = "loop"
  /\ walk.to_process # <<>>
  /\ Last(walk.to_process) \notin walk.processed
  /\ LET current == Last(walk.to_process)
         processed == walk.processed \cup {current}
         called == find_yul_function_calls(Lookup(walk.all_functions, current).body,
                                           walk.all_functions)
     IN \E order \in Orders(called \ processed) :
          walk' = [walk EXCEPT
                     !.to_process = SubSeq(walk.to_process, 1, Len(walk.to_process) - 1) \o order,
                     !.processed = processed,
                     !.result = Store(walk.result, Lookup(walk.all_functions, current))]
  /\ UNCHANGED <<files, processed_cache, cycle_groups, processing_stack, frames, ret,
                 results, top_calls, host, dir>>

\* The work list is empty: return result
WalkReturn ==
  /\ walk.pc = "loop"
  /\ walk.to_process = <<>>
  /\ walk' = [walk EXCEPT !.pc = "done"]
  /\ UNCHANGED <<files, processed_cache, cycle_groups, processing_stack, frames, ret,
                 results, top_calls, host, dir>>

NextDeps ==
  \/ WalkEnter
  \/ WalkSkip
  \/ WalkVisit
  \/ WalkReturn

\* The function runs on: a step that can be taken is taken.
SpecDeps == InitDeps /\ [][NextDeps]_vars /\ WF_vars(NextDeps)

(***************************************************************************)
(* find_assembly_blocks on its own, on a text of tokens: "A" is a match of *)
(* the pattern assembly\s*\{ (its opening brace included), "{" and "}" are  *)
(* braces, "x" is any other text.  Positions count tokens from 0, as the   *)
(* code counts characters.  process_file then puts, last block first, the  *)
(* rewritten block in the place of each block found; the blocks here hold  *)
(* no directive, and "n" is the white space process_file writes.           *)
(***************************************************************************)
Tokens == {"A", "{", "}", "x"}

Contents == UNION {[1..n -> Tokens] : n \in 0..MaxContent}

\* A brace counter that does not count the braces opened inside a block.
FlatCount(brace_count, ch) == IF ch = "}" THEN brace_count - 1 ELSE brace_count

\* if content[i] == "{": brace_count += 1; elif content[i] == "}": brace_count -= 1
BraceCount(brace_count, ch) ==
  IF ch \in {"{", "A"} THEN brace_count + 1
  ELSE IF ch = "}" THEN brace_count - 1
  ELSE brace_count

\* self.assembly_start.search(content, pos): the positions of the matches
\* at or after pos.
MatchesFrom(content, pos) == {m \in pos..(Len(content) - 1) : content[m + 1] = "A"}

\* content[a : b]
Slice(content, a, b) == SubSeq(content, a + 1, b)

\* find_assembly_blocks(content) has been called.
ScanFrame(content) ==
  [pc |-> "search", content |-> content, blocks |-> <<>>, pos |-> 0,
   match |-> 0, start |-> 0, brace_count |-> 0, i |-> 0, text |-> content, replaced |-> 0]

InitScan ==
  /\ files = <<>>
  /\ Fresh
  /\ host = NoHost
  /\ dir = NoDir
  /\ walk \in {ScanFrame(content) : content \in Contents}

\* match = self.assembly_start.search(content, pos); if not match: break
ScanSearch ==
  /\ walk.pc = "search"
  /\ LET found == MatchesFrom(walk.content, walk.pos)
     IN IF found = {}
        THEN walk' = [walk EXCEPT !.pc = "done"]
        ELSE LET m == CHOOSE m \in found : \A o \in found : m <= o
             IN walk' = [walk EXCEPT !.pc = "count", !.match = m, !.start = m + 1,
                                     !.brace_count = 1, !.i = m + 1]
  /\ UNCHANGED <<files, processed_cache, cycle_groups, processing_stack, frames, ret,
                 results, top_calls, host, dir>>

\* One turn of: while i < len(content) and brace_count > 0
ScanChar ==
  /\ walk.pc = "count"
  /\ walk.i < Len(walk.content)
  /\ walk.brace_count > 0
  /\ walk' = [walk EXCEPT !.brace_count = BraceCount(walk.brace_count, walk.content[walk.i + 1]),
                          !.i = walk.i + 1]
  /\ UNCHANGED <<files, processed_cache, cycle_groups, processing_stack, frames, ret,
                 results, top_calls, host, dir>>

\* if brace_count == 0: the block is appended and the search goes on at i
ScanAppend ==
  /\ walk.pc = "count"
  /\ walk.brace_count = 0
  /\ walk' = [walk EXCEPT !.pc = "search", !.pos = walk.i,
                          !.blocks = Append(walk.blocks,
                                            [start_pos |-> walk.match, end_pos |-> walk.i,
                                             block_content |-> Slice(walk.content, walk.start,
                                                                     walk.i - 1)])]
  /\ UNCHANGED <<files, processed_cache, cycle_groups, processing_stack, frames, ret,
                 results, top_calls, host, dir>>

\* else: break, at the end of the text with the brace still open
ScanUnclosed ==
  /\ walk.pc = "count"
  /\ walk.brace_count > 0
  /\ walk.i >= Len(walk.content)
  /\ walk' = [walk EXCEPT !.pc = "done"]
  /\ UNCHANGED <<files, processed_cache, cycle_groups, processing_stack, frames, ret,
                 results, top_calls, host, dir>>

\* A rewriter that takes the end of the block for the place the rest of the
\* text begins at, whatever was put in behind it.
ShiftedRest(text, end_pos) == Slice(text, Len(text) - end_pos, Len(text))

\* after = content[end_pos:]
RestFrom(text, end_pos) == Slice(text, end_pos, Len(text))

\* One turn of the loop over reversed(assembly_blocks):
\* content = before + "assembly {\n" + processed_block + "\n    }" + after,
\* where process_assembly_block returns a block without directive as it is.
ReplaceBlock ==
  /\ walk.pc = "done"
  /\ walk.replaced < Len(walk.blocks)
  /\ LET b == walk.blocks[Len(walk.blocks) - walk.replaced]
         processed_block == b.block_content
     IN walk' = [walk EXCEPT !.replaced = walk.replaced + 1,
                             !.text = Slice(walk.text, 0, b.start_pos)
                                      \o <<"A", "n">> \o processed_block \o <<"n", "}">>
                                      \o RestFrom(walk.text, b.end_pos)]
  /\ UNCHANGED <<files, processed_cache, cycle_groups, processing_stack, frames, ret,
                 results, top_calls, host, dir>>

\* Every block is replaced: return content
ReplaceDone ==
  /\ walk.pc = "done"
  /\ walk.replaced = Len(walk.blocks)
  /\ walk' = [walk EXCEPT !.pc = "returned"]
  /\ UNCHANGED <<files, processed_cache, cycle_groups, processing_stack, frames, ret,
                 results, top_calls, host, dir>>

NextScan ==
  \/ ScanSearch
  \/ ScanChar
  \/ ScanAppend
  \/ ScanUnclosed
  \/ ReplaceBlock
  \/ ReplaceDone

SpecScan == InitScan /\ [][NextScan]_vars /\ WF_vars(NextScan)

(***************************************************************************)
(* extract_yul_functions on its own, on a block of a few items.            *)
(***************************************************************************)
\* What a block is made of: two definitions, the two annotations around a
\* definition, an empty line and a line of other content.
ItemsOf(names) ==
  {Def(DefText(n, "(x) -> r", {}, "std", "t", 1), FALSE) : n \in names}
    \cup {Cmt("start", "rule"), Cmt("end", "rule"), Blank(""), Imp(<<"k">>, "k.presl")}

ItemBlocks(names) == UNION {[1..n -> ItemsOf(names)] : n \in 0..MaxItems}

InitExtract ==
  /\ files = <<>>
  /\ Fresh
  /\ host = NoHost
  /\ dir = NoDir
  /\ walk \in {[pc |-> "extract", block |-> block, functions |-> <<>>]
                : block \in ItemBlocks({"f", "g"})}

\* functions = self.extract_yul_functions(block, source_file)
ExtractCall ==
  /\ walk.pc = "extract"
  /\ walk' = [walk EXCEPT !.pc = "extracted",
                          !.functions = extract_yul_functions(walk.block, "t")]
  /\ UNCHANGED <<files, processed_cache, cycle_groups, processing_stack, frames, ret,
                 results, top_calls, host, dir>>

NextExtract == ExtractCall

SpecExtract == InitExtract /\ [][NextExtract]_vars

(***************************************************************************)
(* process_file on both views of a file: the blocks it holds, as lines,    *)
(* and the text around them, as tokens.                                    *)
(***************************************************************************)
InitWhole == Init \/ InitScan

NextWhole == Next \/ NextScan

SpecWhole == InitWhole /\ [][NextWhole]_vars

(***************************************************************************)
(* resolve_import_path on its own.                                         *)
(***************************************************************************)
\* The ways a caller writes the directory of the files: in full, relative
\* to the working directory (as on the command line), through a symbolic
\* link, and with a step up and down again.
Roots == {AbsoluteRoot, "proj", "/abs/link", "/abs/proj/../proj"}

InitPath ==
  /\ files = <<>>
  /\ Fresh
  /\ host = NoHost
  /\ dir = NoDir
  /\ walk \in {[pc |-> "path", root_dir |-> r, import_path |-> p, current_file |-> f,
                 target_file |-> ""]
                : r \in Roots, p \in RootRelative \cup {"a", "b", "c"}, f \in {"a", "b", "c"}}

\* target_file = self.resolve_import_path(import_path, current_file)
PathCall ==
  /\ walk.pc = "path"
  /\ walk' = [walk EXCEPT !.pc = "resolved",
                          !.target_file = resolve_import_path(walk.import_path, walk.current_file)]
  /\ UNCHANGED <<files, processed_cache, cycle_groups, processing_stack, frames, ret,
                 results, top_calls, host, dir>>

NextPath == PathCall

SpecPath == InitPath /\ [][NextPath]_vars

(***************************************************************************)
(* What the properties below speak of.                                     *)
(***************************************************************************)
\* The top-level calls made so far that returned content.
ReturnedCalls == {i \in 1..Len(results) : results[i].kind = "returned"}

\* The outputs process_file has produced, line by line: what the top-level
\* calls returned and what the cache holds.
RawOutputs ==
  {[file_path |-> results[i].file_path, content |-> results[i].content] : i \in ReturnedCalls}
    \cup {[file_path |-> f, content |-> processed_cache[f]] : f \in DOMAIN processed_cache}

\* The function definitions of a content, block by block, without the
\* annotations and the blank lines between them.
Definitions(content) == [b \in 1..Len(content) |-> DefItems(content[b])]

\* The outputs process_file has produced, as the definitions of their blocks.
Outputs == {[file_path |-> out.file_path, content |-> Definitions(out.content)] : out \in RawOutputs}

\* A sentinel is no subroutine of any file.
IsSentinel(it) == it.text.file = ""

\* The positions of the subroutine definitions of an output block.
Subroutines(block) == {i \in 1..Len(block) : block[i].kind = "def" /\ ~IsSentinel(block[i])}
SubroutineNames(block) == {block[i].text.name : i \in Subroutines(block)}
ContentNames(content) == UNION {SubroutineNames(content[b]) : b \in 1..Len(content)}

\* The definition at position i of an output block stands between its two
\* sentinels.
Wrapped(block, i) ==
  /\ i > 1 /\ i < Len(block)
  /\ block[i - 1].text.name = StartName(block[i].text.name)
  /\ block[i + 1].text.name = StopName(block[i].text.name)

\* The file-level import graph of the files on disk: the files that the
\* directives of f name, `self` apart.
ImportsFrom(f) ==
  LET asked == ImportsOf(files[f], f)
  IN {asked[i].import_path : i \in 1..Len(asked)} \cap DOMAIN files

RECURSIVE ReachIn(_, _)
ReachIn(S, n) ==
  IF n = 0 THEN S
  ELSE ReachIn(S \cup UNION {ImportsFrom(f) : f \in S \cap EntryFiles}, n - 1)

\* The files f reaches by one import or more.
Reach(f) == ReachIn(ImportsFrom(f), Cardinality(DOMAIN files))

\* A and B lie on a common import cycle.
OnCommonCycle(A, B) == A \in EntryFiles /\ B \in EntryFiles /\ B \in Reach(A) /\ A \in Reach(B)

\* The names the files of S define.
DefinedIn(S) ==
  UNION {UNION {{d.text.name : d \in Range(DefItems(files[f][b]))} : b \in 1..Len(files[f])}
         : f \in S}

(***************************************************************************)
(* C1: termination.                                                        *)
(***************************************************************************)
\* C1: a top-level process_file call terminates: it returns content or
\* raises, and the nesting of process_file, resolve_import and cycle-group
\* collection never grows without end.  In the model: no top-level call is cut
\* off for nesting process_file more than MaxDepth deep.
C1_Terminates == \A i \in 1..Len(results) : results[i].kind # "RecursionError"

(***************************************************************************)
(* C2: one definition per name in an emitted block.                        *)
(***************************************************************************)
\* The block defines no subroutine name twice.
NoDuplicate(block) ==
  \A i, j \in Subroutines(block) : i # j => block[i].text.name # block[j].text.name

\* C2: in every block emitted by process_file no subroutine name has more
\* than one definition.
C2_Dedup ==
  \A out \in Outputs : \A b \in 1..Len(out.content) : NoDuplicate(out.content[b])

(***************************************************************************)
(* C3: every member of a cycle group carries the group's unified set.      *)
(***************************************************************************)
\* The final output of a file: what the instance hands out for it once no
\* call is in progress.
FinalOutput(f) == Definitions(processed_cache[f])

\* Every top-level call made so far returned content.
AllReturned == \A i \in 1..Len(results) : results[i].kind = "returned"

\* C3: for every recorded cycle group, the final output of each member file
\* contains every subroutine of the group's unified set.  Stated for the
\* instances on which no top-level call has failed.
C3_MembersCarryGroup ==
  (Idle /\ AllReturned) =>
     \A g \in Range(cycle_groups) : \A m \in g.key \cap DOMAIN processed_cache :
        Keys(g.fns) \subseteq ContentNames(FinalOutput(m))

(***************************************************************************)
(* C4: cycle soundness, block by block.                                    *)
(***************************************************************************)
\* The names block b of file f defines on disk.
LocalNames(f, b) == {d.text.name : d \in Range(DefItems(files[f][b]))}

\* Block ba of A's output has every subroutine block bb of B's output has,
\* the subroutines the two blocks define themselves apart.
BlockContains(A, ba, B, bb) ==
  (SubroutineNames(FinalOutput(B)[bb]) \ (LocalNames(A, ba) \cup LocalNames(B, bb)))
     \subseteq SubroutineNames(FinalOutput(A)[ba])

\* C4: for files A and B on a common import cycle, any block of A's output
\* contains the subroutines of any block of B's output, locally defined
\* subroutines and sentinels apart.
C4_CycleSoundness ==
  Idle => \A A, B \in DOMAIN processed_cache :
            OnCommonCycle(A, B) =>
              \A ba \in 1..Len(FinalOutput(A)) : \A bb \in 1..Len(FinalOutput(B)) :
                 BlockContains(A, ba, B, bb)

(***************************************************************************)
(* C5: the two-file cycle of funcA and funcB.                              *)
(***************************************************************************)
\* File f is one block that imports `imported` from `other` and defines
\* `defined`, and has nothing else.
ImportsAndDefines(f, imported, other, defined) ==
  /\ f \in DOMAIN files
  /\ Len(files[f]) = 1
  /\ Range(ImportItems(files[f][1])) = {Imp(<<imported>>, other)}
  /\ LocalNames(f, 1) = {defined}
  /\ \A d \in Range(DefItems(files[f][1])) : d.text.shape = "std"

TwoFileCycle ==
  /\ ImportsAndDefines("a", "funcB", "b", "funcA")
  /\ ImportsAndDefines("b", "funcA", "a", "funcB")

\* The content has `plain` without sentinels and `wrapped` between its
\* sentinels, each once.
PlainAndWrapped(content, plain, wrapped) ==
  \E b \in 1..Len(content) :
     /\ \E i \in Subroutines(content[b]) :
           content[b][i].text.name = plain /\ ~Wrapped(content[b], i)
     /\ \E i \in Subroutines(content[b]) :
           content[b][i].text.name = wrapped /\ Wrapped(content[b], i)
     /\ \A i \in Subroutines(content[b]) :
           /\ content[b][i].text.name = plain => ~Wrapped(content[b], i)
           /\ content[b][i].text.name = wrapped => Wrapped(content[b], i)
     /\ StartName(plain) \notin {content[b][i].text.name : i \in 1..Len(content[b])}

\* C5: in the two-file cycle the output of a has funcA without sentinels
\* and funcB wrapped, the output of b has funcB without and funcA wrapped.
C5_TwoFileCycleSentinels ==
  TwoFileCycle =>
    \A out \in Outputs :
       /\ out.file_path = "a" => PlainAndWrapped(out.content, "funcA", "funcB")
       /\ out.file_path = "b" => PlainAndWrapped(out.content, "funcB", "funcA")

\* The two-file cycle is on disk and top-level calls on a and on b have both
\* returned content.
C5_BothProcessed ==
  /\ TwoFileCycle
  /\ \E i, j \in ReturnedCalls : results[i].file_path = "a" /\ results[j].file_path = "b"

(***************************************************************************)
(* C6: which imported definitions are wrapped.                             *)
(***************************************************************************)
\* Position i of block b of file_path's output holds a definition the
\* rewriter emitted as an import.
EmittedAsImport(content, b, i) == i \in Subroutines(content[b]) /\ content[b][i].imported

\* The definition was written in another file, or in another block of
\* file_path.
FromElsewhere(text, file_path, b) == text.file # file_path \/ text.block # b

\* C6: a definition emitted as an import is wrapped in its two sentinels if
\* and only if its defining file differs from the file being emitted or it
\* is defined in another block of that file.
C6_SentinelLocality ==
  \A out \in Outputs : \A b \in 1..Len(out.content) : \A i \in 1..Len(out.content[b]) :
     EmittedAsImport(out.content, b, i) =>
        (Wrapped(out.content[b], i) <=> FromElsewhere(out.content[b][i].text, out.file_path, b))

(***************************************************************************)
(* C7: importing from a member of a cycle group.                           *)
(***************************************************************************)
\* The files, other than f itself, that block b of f names in a directive.
BlockTargets(f, b) ==
  {d.loc : d \in Range(ImportItems(files[f][b]))} \cap (DOMAIN files \ {f})

\* f is outside the group: no member of its key, and on no import cycle
\* with a member.
Outside(f, g) == f \notin g.key /\ \A m \in g.key : ~OnCommonCycle(f, m)

\* C7: when a file outside a cycle imports a name from a member of a cycle
\* group, the importing block has the entire unified set of the group: every
\* subroutine a member file defines and every external dependency of the
\* group.
C7_OutsiderGetsGroup ==
  Idle => \A f \in DOMAIN processed_cache : \A b \in 1..Len(files[f]) :
            \A g \in Range(cycle_groups) :
               (Outside(f, g) /\ BlockTargets(f, b) \cap g.key # {}) =>
                  (Keys(g.fns) \cup DefinedIn(g.key)) \subseteq SubroutineNames(FinalOutput(f)[b])

(***************************************************************************)
(* C8: an import from an ordinary file brings the closure of the name.     *)
(***************************************************************************)
\* The definitions a content has, all blocks together.
ContentDefs(content) ==
  UNION {{content[b][i].text : i \in Subroutines(content[b])} : b \in 1..Len(content)}

RECURSIVE CallClosure(_, _)
\* The names reached from `names` through the calls written in `defs`.
CallClosure(names, defs) ==
  LET called == UNION {d.calls : d \in {x \in defs : x.name \in names}}
      more == (names \cup called) \cap {d.name : d \in defs}
  IN IF more = names THEN names ELSE CallClosure(more, defs)

\* resolve_import has just returned to the block that asked for
\* func_name from import_path.
Resolved(func_name, import_path) ==
  /\ Running("process_assembly_block", "wait")
  /\ ret.kind = "value"
  /\ Top.dirs # <<>>
  /\ Top.k <= Len(Head(Top.dirs).names)
  /\ Head(Top.dirs).names[Top.k] = func_name
  /\ Head(Top.dirs).loc = import_path

\* The target is an ordinary file: processed, and in no cycle group.
Ordinary(target_file) ==
  /\ target_file \in DOMAIN processed_cache
  /\ GroupsWith(target_file) = <<>>

\* C8: importing n from an ordinary target adds exactly the closure of n
\* over the subroutines of the processed target: n, everything n calls
\* directly or indirectly, and nothing that n does not reach.
C8_OrdinaryImportIsClosure ==
  \A n \in DefinedIn(DOMAIN files) : \A t \in DOMAIN files :
     (Resolved(n, t) /\ Ordinary(t)) =>
        Keys(ret.value) = CallClosure({n}, ContentDefs(processed_cache[t]))

(***************************************************************************)
(* C9: an import from self.                                                *)
(***************************************************************************)
\* The definitions file f has on disk, all blocks together.
DiskDefs(f) == UNION {{d.text : d \in Range(DefItems(files[f][b]))} : b \in 1..Len(files[f])}

\* The definitions that the directives of f bring from other files: each
\* name asked for, with what it calls in its file.
ImportedDefs(f) ==
  LET asked == ImportsOf(files[f], f)
      Brought(r) == LET defs == DiskDefs(r.import_path)
                    IN {d \in defs : d.name \in CallClosure({r.func_name}, defs)}
  IN UNION {Brought(asked[i])
            : i \in {j \in 1..Len(asked) : asked[j].import_path \in DOMAIN files \ {f}}}

\* What `import n from self` is to bring: n, and what n calls directly or
\* indirectly among the definitions of f and the definitions f imports.
SelfClosure(f, n) == CallClosure({n}, DiskDefs(f) \cup ImportedDefs(f))

\* The names block b of f imports from self.
SelfImports(f, b) ==
  UNION {Range(d.names) : d \in {x \in Range(ImportItems(files[f][b])) : IsSelf(x.loc)}}

\* C9: `import n from self` in a block brings n and everything n calls,
\* directly or indirectly, what the file imported from other files included,
\* and every one of them is wrapped in its sentinels in the importing block.
C9_SelfImportClosureWrapped ==
  \A out \in Outputs : \A b \in 1..Len(out.content) :
     \A n \in SelfImports(out.file_path, b) :
        /\ SelfClosure(out.file_path, n) \subseteq SubroutineNames(out.content[b])
        /\ \A i \in Subroutines(out.content[b]) :
              out.content[b][i].text.name \in SelfClosure(out.file_path, n)
                 => Wrapped(out.content[b], i)

(***************************************************************************)
(* C10: a signature conflict inside a cycle.                               *)
(***************************************************************************)
\* The files on a common import cycle with m, m included.
CycleOf(m) == {m} \cup {x \in EntryFiles : OnCommonCycle(m, x)}

\* The signatures under which the files of S define `name`.
SignaturesIn(S, name) ==
  UNION {UNION {{ExtractedSignature(d.text) : d \in {x \in Range(DefItems(files[f][b])) : x.text.name = name}}
                : b \in 1..Len(files[f])} : f \in S}

\* Two files of the cycle of m define one name with two signatures.
ConflictInCycleOf(m) ==
  /\ Cardinality(CycleOf(m)) > 1
  /\ \E name \in DefinedIn(CycleOf(m)) : \E A, B \in CycleOf(m) :
        A # B /\ \E sa \in SignaturesIn({A}, name) : \E sb \in SignaturesIn({B}, name) : sa # sb

\* Every directive on disk names a file that is there and a subroutine that
\* file defines: nothing but the conflict can make a call fail.
DirectivesSatisfied ==
  \A f \in EntryFiles :
     LET asked == ImportsOf(files[f], f)
     IN \A i \in 1..Len(asked) :
           LET target == IF IsSelf(asked[i].import_path) THEN f ELSE asked[i].import_path
           IN target \in DOMAIN files /\ asked[i].func_name \in DefinedIn({target})

\* process_file raised a signature error that carries two signatures.
SignatureError(exc) ==
  /\ exc.what \in {"signature conflict in cycle group", "signature mismatch"}
  /\ exc.sig1 # exc.sig2

\* C10: if two member files of a cycle define a subroutine with the same
\* name and different signatures, processing any member of the cycle raises a
\* signature error with both signatures, and returns no content.
C10_ConflictFailsEveryMember ==
  DirectivesSatisfied =>
    \A i \in 1..Len(results) :
       (results[i].kind \in {"returned", "raised"} /\ ConflictInCycleOf(results[i].file_path)) =>
          (results[i].kind = "raised" /\ SignatureError(results[i].exc))
(***************************************************************************)
(* C11: no merge keeps one of two differing definitions silently.          *)
(***************************************************************************)
\* The signatures under which block b of f defines `name` on disk.
LocalSignatures(f, b, name) ==
  {ExtractedSignature(d.text) : d \in {x \in Range(DefItems(files[f][b])) : x.text.name = name}}

\* C11: when two definitions with one name and different signatures meet
\* in a merge, processing aborts with a signature-conflict error; no merge
\* silently keeps one of the two.  For the merge of a block's local
\* definitions with its imports: no output block holds a definition that
\* was emitted as an import under a name the block defines itself with
\* another signature.
C11_NoSilentMerge ==
  \A out \in Outputs : \A b \in 1..Len(out.content) : \A i \in 1..Len(out.content[b]) :
     EmittedAsImport(out.content, b, i) =>
        \A sig \in LocalSignatures(out.file_path, b, out.content[b][i].text.name) :
           sig = ExtractedSignature(out.content[b][i].text)

(***************************************************************************)
(* C12: a name that is absent from its target.                             *)
(***************************************************************************)
\* The directives of f that name a file that is there, or self, and a
\* subroutine that no file defines: the name and the file it is asked from.
AbsentAsked(f) ==
  LET asked == ImportsOf(files[f], f)
  IN {[func_name |-> asked[i].func_name,
       target |-> IF IsSelf(asked[i].import_path) THEN f ELSE asked[i].import_path]
      : i \in {j \in 1..Len(asked) :
                 /\ IsSelf(asked[j].import_path) \/ asked[j].import_path \in DOMAIN files
                 /\ asked[j].func_name \notin DefinedIn(DOMAIN files)}}

\* No directive on disk names a file that is not there, so that no other
\* error comes before the 'not found' one.
TargetsExist ==
  \A f \in EntryFiles :
     LET asked == ImportsOf(files[f], f)
     IN \A i \in 1..Len(asked) :
           IsSelf(asked[i].import_path) \/ asked[i].import_path \in DOMAIN files

\* The top-level calls that have ended, by a return or by an exception.
EndedCalls == {i \in 1..Len(results) : results[i].kind \in {"returned", "raised"}}

\* The error says that a name of `absent` was not found in its target and
\* lists names: the name is not among them, the names the target file
\* defines are.
NotFoundListing(exc, absent) ==
  /\ exc.what = "function not found"
  /\ exc.name \notin exc.available
  /\ \E d \in absent :
        /\ d.func_name = exc.name
        /\ DefinedIn({d.target}) # {}
        /\ DefinedIn({d.target}) \subseteq exc.available

\* C12: if a directive of a file names a subroutine that is absent from the
\* universe of its target, process_file on that file fails with a 'not
\* found' error that lists the available names, and afterwards the cache has
\* no entry for the file.
C12_AbsentNameNotFound ==
  TargetsExist =>
    \A i \in EndedCalls :
       AbsentAsked(results[i].file_path) # {} =>
          /\ results[i].kind = "raised"
          /\ NotFoundListing(results[i].exc, AbsentAsked(results[i].file_path))
          /\ results[i].file_path \notin DOMAIN processed_cache

\* A top-level call on a file that asks for an absent name has ended, all
\* targets being there.
C12_AbsentAskedEnded ==
  /\ TargetsExist
  /\ \E i \in EndedCalls : AbsentAsked(results[i].file_path) # {}

(***************************************************************************)
(* C13: one content per path.                                              *)
(***************************************************************************)
\* In this step an activation of process_file(p) returns content: at the
\* cache check, or after the last block.
ProcessFileReturns(p) ==
  /\ frames # <<>>
  /\ Top.op = "process_file"
  /\ Top.file_path = p
  /\ frames' = Callers
  /\ ret'.kind = "value"

\* C13: on one instance every call process_file(p) that returns content
\* returns the same content for p, the calls made while p is still being
\* processed and the calls made after other files were processed included.
\* The cache entry of p is the content the latest return for p gave (a
\* return either reads it or has just written it), so: a return for a path
\* that has a cache entry gives the content of that entry.
C13_SameContentPerPath ==
  [][\A p \in DOMAIN processed_cache :
        ProcessFileReturns(p) => ret'.value = processed_cache[p]]_vars

(***************************************************************************)
(* C14: no import of a .presl path is left.                                *)
(***************************************************************************)
\* C14: after process_file no import statement of the host language in the
\* returned content names a path that ends in .presl: the bare form and the
\* selective form both have the suffix rewritten to .post.sol.
C14_NoPreslImportLeft ==
  \A i \in 1..Len(host.after) : host.after[i].ext # ".presl"

(***************************************************************************)
(* C15: a file without directives.                                         *)
(***************************************************************************)
\* No block of f holds an import directive.
NoDirective(f) == \A b \in 1..Len(files[f]) : ImportItems(files[f][b]) = <<>>

\* C15: processing a file that has no import directive in any block returns
\* content identical to the input (the suffix rewrite in the import
\* statements of the host language apart, which touches no block), so that
\* processing an output again reproduces it: line by line, the blocks
\* returned are the blocks on disk.
C15_NoDirectiveIdentity ==
  \A out \in RawOutputs :
     NoDirective(out.file_path) => out.content = files[out.file_path]

(***************************************************************************)
(* C16: runs on fresh instances agree.                                     *)
(***************************************************************************)
\* C16: two runs of process_file on the same input files, each on a fresh
\* instance, produce identical output, the order of the imported
\* subroutines inside each block included; the order does not depend on the
\* order in which the set of cycle member paths is iterated.  In SpecRuns
\* every top-level call is made on an instance of its own, so: two calls on
\* the same file that returned have returned the same content.
C16_FreshInstancesAgree ==
  \A i, j \in ReturnedCalls :
     results[i].file_path = results[j].file_path =>
        results[i].content = results[j].content

(***************************************************************************)
(* C17: the place of the slither annotations of an imported subroutine.    *)
(***************************************************************************)
\* The definition stands, in the block it was written in, right after a
\* start annotation of `rule` and right before the end annotation of `rule`.
AnnotatedOnDisk(text, rule) ==
  /\ text.file \in DOMAIN files
  /\ LET blk == files[text.file][text.block]
     IN \E k \in 2..(Len(blk) - 1) :
           /\ blk[k].kind = "def" /\ blk[k].text = text
           /\ blk[k - 1] = Cmt("start", rule)
           /\ blk[k + 1] = Cmt("end", rule)

\* The rules of the annotations on disk.
Rules ==
  UNION {UNION {{it.rule : it \in {x \in Range(files[f][b]) : x.kind = "cmt"}}
                : b \in 1..Len(files[f])} : f \in DOMAIN files}

\* Position i of the block holds an imported definition that the rewriter
\* put between sentinels.
ImportedWithSentinels(block, i) ==
  /\ block[i].kind = "def" /\ block[i].imported /\ ~IsSentinel(block[i])
  /\ \E k \in 1..Len(block) :
        block[k].kind = "def" /\ block[k].text.name = StartName(block[i].text.name)

\* The lines around position i come in the order: start annotation, start
\* sentinel, definition, stop sentinel, end annotation.
AnnotationsOutside(block, i, rule) ==
  \E p1, p2, p3, p4 \in 1..Len(block) :
     /\ p1 < p2 /\ p2 < i /\ i < p3 /\ p3 < p4
     /\ block[p1] = Cmt("start", rule)
     /\ block[p2].kind = "def" /\ block[p2].text.name = StartName(block[i].text.name)
     /\ block[p3].kind = "def" /\ block[p3].text.name = StopName(block[i].text.name)
     /\ block[p4] = Cmt("end", rule)

\* C17: for an imported subroutine that has a slither-disable-start
\* annotation before it and the matching slither-disable-end after it, the
\* output has, in this order, the start annotation, the coverage start
\* sentinel, the definition, the coverage stop sentinel and the end
\* annotation, and it has the end annotation exactly once.
C17_AnnotationsAroundSentinels ==
  \A out \in RawOutputs : \A b \in 1..Len(out.content) :
     \A i \in 1..Len(out.content[b]) : \A rule \in Rules :
        (/\ ImportedWithSentinels(out.content[b], i)
         /\ AnnotatedOnDisk(out.content[b][i].text, rule)) =>
           /\ AnnotationsOutside(out.content[b], i, rule)
           /\ Cardinality({k \in 1..Len(out.content[b]) : out.content[b][k] = Cmt("end", rule)}) = 1

(***************************************************************************)
(* C18: the directives of a block are consumed.                            *)
(***************************************************************************)
\* The file is on no import cycle.
OnNoCycle(t) == t \notin Reach(t)

\* The ordinary cross-file imports of block b of f: the directive names
\* another file, which is on no import cycle, and a subroutine it defines.
OrdinaryImports(f, b) ==
  LET asked == DirectivesOf(ImportItems(files[f][b]), f)
  IN {[func_name |-> asked[i].func_name, target |-> asked[i].import_path]
      : i \in {j \in 1..Len(asked) :
                 /\ asked[j].import_path \in DOMAIN files \ {f}
                 /\ OnNoCycle(asked[j].import_path)
                 /\ asked[j].func_name \in DefinedIn({asked[j].import_path})}}

\* The positions of the block that hold the definition of `name` written
\* in file `target`.
DefinitionsOf(block, name, target) ==
  {i \in 1..Len(block) : /\ block[i].kind = "def"
                         /\ block[i].text.name = name
                         /\ block[i].text.file = target}

\* C18: every directive line of a block is consumed: for an ordinary
\* cross-file import the output block has the imported definition exactly
\* once, and no line of the output block is an import directive.
C18_DirectivesConsumed ==
  \A out \in RawOutputs : \A b \in 1..Len(out.content) :
     /\ \A i \in 1..Len(out.content[b]) : out.content[b][i].kind # "imp"
     /\ \A d \in OrdinaryImports(out.file_path, b) :
           Cardinality(DefinitionsOf(out.content[b], d.func_name, d.target)) = 1

\* process_file has produced an output for a file that has an ordinary
\* cross-file import.
C18_OrdinaryImportEmitted ==
  \E out \in RawOutputs : \E b \in 1..Len(out.content) :
     OrdinaryImports(out.file_path, b) # {}

(***************************************************************************)
(* C19: the return code of preprocess_directory.                           *)
(***************************************************************************)
\* The .presl files of the directory that carry no marker, in sorted order.
NonSkipped == SelectSeq(SortedPaths, LAMBDA f : ~should_skip_file(dir.markers[f]))

\* The attempts that raised: in process_file, or when the output was written.
RaisedCalls ==
  {i \in 1..Len(results) : \/ results[i].kind \in {"raised", "RecursionError"}
                           \/ results[i].file_path \in dir.unwritten}

\* C19: preprocess_directory attempts every file that is not skipped, also
\* after an earlier file has failed, and returns a non-zero code if and only
\* if at least one such file raised during processing; a failure of the
\* formatter never changes the code.
C19_DirectoryReturnCode ==
  dir.pc = "done" =>
     /\ dir.attempted = NonSkipped
     /\ Len(results) = Len(dir.attempted)
     /\ \A i \in 1..Len(results) : results[i].file_path = dir.attempted[i]
     /\ dir.code # 0 <=> RaisedCalls # {}

\* preprocess_directory has returned after a file failed, a later file was
\* processed, a file was skipped and the formatter failed.
C19_FailedThenProcessed ==
  /\ dir.pc = "done"
  /\ dir.formatter = "failed"
  /\ Len(NonSkipped) < Len(SortedPaths)
  /\ \E i \in RaisedCalls : \E j \in 1..Len(results) : i < j /\ j \notin RaisedCalls

(***************************************************************************)
(* C20: a suppressed error is not lost.                                    *)
(***************************************************************************)
\* A directive of f cannot be satisfied: it names a file that is not there,
\* or a name that no file defines.
BrokenDirective(f) ==
  LET asked == ImportsOf(files[f], f)
  IN \E i \in 1..Len(asked) :
        LET target == IF IsSelf(asked[i].import_path) THEN f ELSE asked[i].import_path
        IN target \notin DOMAIN files \/ asked[i].func_name \notin DefinedIn(DOMAIN files)

\* The files whose directives a call on `entry` has to resolve.
ReachableFrom(entry) == ({entry} \cup Reach(entry)) \cap EntryFiles

\* C20: if some directive of a file reachable from the entry file names a
\* missing target file or a name its target does not provide, the top-level
\* process_file call on the entry file fails rather than returning content;
\* an error suppressed while external dependencies are collected is not lost.
C20_SuppressedErrorNotLost ==
  \A i \in ReturnedCalls :
     \A f \in ReachableFrom(results[i].file_path) : ~BrokenDirective(f)

(***************************************************************************)
(* C21: the order of the lines emitted for an imported subroutine.         *)
(***************************************************************************)
\* In this step process_assembly_block returns the rewritten block.
BlockEmitted ==
  /\ Running("process_assembly_block", "loop")
  /\ Top.dirs = <<>>
  /\ frames' = Callers
  /\ ret'.kind = "value"

\* The line is the sentinel of that name.
SentinelLine(it, sname) == it.kind = "def" /\ IsSentinel(it) /\ it.text.name = sname

RECURSIVE InEmissionOrder(_, _, _, _)
\* From position pos on the block reads, for each function of funcs in turn:
\* the start sentinel if the function is not among locals, its
\* pre-annotations, its text, its post-annotations, the stop sentinel if it
\* is not among locals.
InEmissionOrder(block, pos, funcs, locals) ==
  IF funcs = <<>> THEN TRUE
  ELSE LET func == Head(funcs)
           sentinels == IF func.name \in locals THEN 0 ELSE 1
           pre == pos + sentinels
           text == pre + Len(func.pre_comments)
           stop == text + 1 + Len(func.post_comments)
           next == stop + sentinels
       IN /\ next - 1 <= Len(block)
          /\ sentinels = 1 => SentinelLine(block[pos], StartName(func.name))
          /\ SubSeq(block, pre, text - 1) = func.pre_comments
          /\ block[text].kind = "def" /\ block[text].text = func.full_text
          /\ SubSeq(block, text + 1, stop - 1) = func.post_comments
          /\ sentinels = 1 => SentinelLine(block[stop], StopName(func.name))
          /\ InEmissionOrder(block, next, Tail(funcs), locals)

InProgress ==
  {frames[i].file_path : i \in {j \in 1..Len(frames) :
                                  /\ frames[j].op = "process_file"
                                  /\ frames[j].pc \in {"blocks", "block_wait"}}}

\* C22: in every reachable state a file that still has a process_file
\* invocation in progress (it is on the processing stack with an unfinished
\* rewrite) has no entry in the file cache; a cache entry for a path exists
\* only once all processing of that path has completed.
C22_NoEntryWhileInProgress ==
  \A f \in InProgress : f \in Range(processing_stack) => f \notin DOMAIN processed_cache

(***************************************************************************)
(* C23: entries of the cache and of the cycle-group table are never        *)
(* replaced.                                                               *)
(***************************************************************************)
\* The step leaves every entry of the file cache as it is.
CacheEntriesKept ==
  \A p \in DOMAIN processed_cache :
     p \in DOMAIN processed_cache' /\ processed_cache'[p] = processed_cache[p]

\* The step leaves every entry of the cycle-group table as it is.
GroupEntriesKept ==
  \A i \in 1..Len(cycle_groups) :
     \E j \in 1..Len(cycle_groups') : cycle_groups'[j] = cycle_groups[i]

\* C23: once an entry has been inserted into the file cache or into the
\* cycle-group table, no later operation replaces it with different
\* content: the cached output of a path and the unified set of a cycle key
\* stay the same for the lifetime of the instance.
C23_EntriesNeverReplaced == [][CacheEntriesKept /\ GroupEntriesKept]_vars

(***************************************************************************)
(* C24: the processing stack lists the rewrites in progress.               *)
(***************************************************************************)
\* The files whose process_file activation is between its push on the stack
\* and its pop, outermost first.
RewritesInProgress ==
  LET active == SelectSeq(frames, LAMBDA fr : /\ fr.op = "process_file"
                                              /\ fr.pc \in {"blocks", "block_wait"})
  IN [i \in 1..Len(active) |-> active[i].file_path]

\* C24: at every point of a resolution the processing stack lists exactly
\* the files whose process_file rewrite is in progress, in call order
\* (outermost first): a pop removes the entry the invocation pushed, a path
\* never stays on the stack after its invocation has ended (normally or by
\* an exception that is caught further up), and the stack is empty when a
\* top-level process_file returns.
C24_StackListsRewrites ==
  /\ frames # <<>> => processing_stack = RewritesInProgress
  /\ (Idle /\ results # <<>> /\ Last(results).kind = "returned") => processing_stack = <<>>

(***************************************************************************)
(* C25: the keys of the cycle-group table.                                 *)
(***************************************************************************)
\* The files of S transitively import one another.
MutuallyImporting(S) == \A A, B \in S : B \in Reach(A)

\* No file outside S lies on a common import cycle with a file of S.
Maximal(S) == \A f \in EntryFiles \ S : \A m \in S : ~OnCommonCycle(f, m)

\* C25: every key recorded in the cycle-group table is exactly a strongly
\* connected component of the file-level import graph: all its members
\* transitively import one another, and no file outside the key lies on a
\* common import cycle with a member (the group is maximal).
C25_KeysAreComponents ==
  \A key \in GroupKeys : MutuallyImporting(key) /\ Maximal(key)

(***************************************************************************)
(* C26: an import that closes a cycle.                                     *)
(***************************************************************************)
\* In this step resolve_import returns functions after process_file came
\* back from a target that is itself being rewritten further down the call
\* chain: the import closed a cycle.
CycleImportReturns ==
  /\ Running("resolve_import", "processed")
  /\ ret.kind = "value"
  /\ Top.import_path \in Range(RewritesInProgress)
  /\ Top.import_path \in Range(processing_stack)
  /\ frames' = Callers
  /\ ret'.kind = "value"

\* The definitions of a unified set, as written.
GroupTexts(fns) == {fns[i].full_text : i \in 1..Len(fns)}

\* C26: when resolve_import(name, target) finds that the target is on the
\* processing stack (a new cycle is discovered), it returns the closure of
\* name within the unified set of the cycle group, not the entire set.
C26_CycleImportIsClosure ==
  [][CycleImportReturns =>
       \E g \in Range(cycle_groups) :
          /\ Top.import_path \in g.key
          /\ Keys(ret'.value) = CallClosure({Top.func_name}, GroupTexts(g.fns))]_vars

(***************************************************************************)
(* C27: a member's definition is not replaced by an external dependency.   *)
(***************************************************************************)
\* C27: during the unification of a cycle group, an external dependency
\* whose name is already present in the cycle set (a member file defines it)
\* does not replace the existing entry: the member file's own definition
\* stays in the unified set.  So: in every recorded unified set, a name
\* that a member file of the key defines is held with a definition written
\* in a member file.
C27_MemberDefinitionStays ==
  \A g \in Range(cycle_groups) : \A i \in 1..Len(g.fns) :
     g.fns[i].name \in DefinedIn(g.key \cap DOMAIN files) =>
        g.fns[i].full_text.file \in g.key

(***************************************************************************)
(* C28: a call on a cached path.                                           *)
(***************************************************************************)
\* process_file is entered on a path that has a cache entry.
CachedCall ==
  /\ Running("process_file", "enter")
  /\ ret.kind = "none"
  /\ Depth <= MaxDepth
  /\ Top.file_path \in DOMAIN processed_cache

\* C28: a process_file call on a path that already has a cache entry
\* returns the cached content and changes no resolver state: the cache, the
\* cycle-group table and the processing stack are the same after the call
\* as before, also when the path is on the processing stack at the time of
\* the call.  So: the step that enters process_file on a cached path is the
\* return of the cached content, and it calls nothing.
C28_CachedCallChangesNothing ==
  [][CachedCall =>
       /\ frames' = Callers
       /\ ret' = Returned(processed_cache[Top.file_path])
       /\ UNCHANGED <<processed_cache, cycle_groups, processing_stack>>]_vars

(***************************************************************************)
(* C29: get_function_dependencies.                                         *)
(***************************************************************************)
RECURSIVE ReachableNames(_, _)
\* The names reached from `names` through the calls that the bodies of the
\* universe make to names of the universe.
ReachableNames(names, universe) ==
  LET called == UNION {Lookup(universe, n).body : n \in names} \cap Keys(universe)
  IN IF called \subseteq names THEN names
     ELSE ReachableNames(names \cup called, universe)

\* The mapping holds exactly the entries of the universe under `names`.
EntriesOf(mapping, names, universe) ==
  /\ Keys(mapping) = names
  /\ Len(mapping) = Cardinality(names)
  /\ \A i \in 1..Len(mapping) : mapping[i] = Lookup(universe, mapping[i].name)

\* What get_function_dependencies has returned is right.
WalkResultRight ==
  walk.pc = "done" =>
     IF walk.func_name \in Keys(walk.all_functions)
     THEN EntriesOf(walk.result, ReachableNames({walk.func_name}, walk.all_functions),
                    walk.all_functions)
     ELSE walk.result = <<>>

\* C29: get_function_dependencies(name, universe) terminates for every
\* finite universe, universes with self-recursive and mutually recursive
\* subroutines included, and returns exactly the set of names reachable
\* from name through calls to names of the universe (name itself included);
\* it returns the empty mapping when name is not in the universe.
C29_DependenciesTerminateAndReach == <>(walk.pc = "done") /\ []WalkResultRight

\* get_function_dependencies has returned for a name that calls itself and
\* is on a cycle of calls through another subroutine, a name having been met
\* a second time on the work list.
C29_RecursiveUniverseWalked ==
  /\ walk.pc = "done"
  /\ walk.func_name \in Keys(walk.all_functions)
  /\ walk.func_name \in Lookup(walk.all_functions, walk.func_name).body
  /\ \E n \in Keys(walk.result) \ {walk.func_name} :
        /\ n \in Lookup(walk.all_functions, walk.func_name).body
        /\ walk.func_name \in Lookup(walk.all_functions, n).body
  /\ Keys(walk.result) # Keys(walk.all_functions)

(***************************************************************************)
(* C30: the body recorded for an extracted subroutine.                     *)
(***************************************************************************)
\* The known subroutines called between the braces of the definition of n.
CalledInBraces(n, universe) == Lookup(universe, n).full_text.calls \cap Keys(universe)

\* C30: the body recorded for an extracted subroutine is the text between
\* its opening brace and the matching closing brace, so every known
\* subroutine called anywhere inside those braces is found as a dependency;
\* this holds for a definition written on a single line as well as for a
\* multi-line definition.
C30_BodyIsTextBetweenBraces ==
  /\ \A i \in 1..Len(walk.all_functions) :
        walk.all_functions[i].body = walk.all_functions[i].full_text.calls
  /\ walk.pc = "done" =>
        \A n \in Keys(walk.result) : CalledInBraces(n, walk.all_functions) \subseteq Keys(walk.result)

(***************************************************************************)
(* C31: find_assembly_blocks.                                              *)
(***************************************************************************)
\* The number of tokens of content[a : b] that open, and that close, a brace.
Opened(content, a, b) == Cardinality({k \in a..(b - 1) : content[k + 1] \in {"{", "A"}})
Closed(content, a, b) == Cardinality({k \in a..(b - 1) : content[k + 1] = "}"})

\* The position just after the brace that balances the one opened at m, or
\* -1 when no brace does.
BalancedEnd(content, m) ==
  LET ends == {e \in (m + 1)..Len(content) : Opened(content, m, e) = Closed(content, m, e)}
  IN IF ends = {} THEN 0 - 1 ELSE CHOOSE e \in ends : \A o \in ends : e <= o

\* The first match at or after pos, or -1.
FirstMatch(content, pos) ==
  LET found == MatchesFrom(content, pos)
  IN IF found = {} THEN 0 - 1 ELSE CHOOSE m \in found : \A o \in found : m <= o

\* Block k starts at the first match after the block before it, ends at the
\* brace that balances its opening brace, and holds the text between the two.
BlockRight(content, blocks, k) ==
  LET b == blocks[k]
      from == IF k = 1 THEN 0 ELSE blocks[k - 1].end_pos
  IN /\ b.start_pos = FirstMatch(content, from)
     /\ b.end_pos = BalancedEnd(content, b.start_pos)
     /\ b.block_content = Slice(content, b.start_pos + 1, b.end_pos - 1)
     /\ from <= b.start_pos
     /\ b.start_pos < b.end_pos

\* The scan has returned: after the last block there is no match, or the
\* first match opens a brace that nothing balances.
ScanEndsRight ==
  LET from == IF walk.blocks = <<>> THEN 0 ELSE Last(walk.blocks).end_pos
      m == FirstMatch(walk.content, from)
  IN m = 0 - 1 \/ BalancedEnd(walk.content, m) = 0 - 1

BlocksRight ==
  /\ walk.pc \in {"search", "count", "done", "returned"}
  /\ \A k \in 1..Len(walk.blocks) : BlockRight(walk.content, walk.blocks, k)
  /\ walk.pc \in {"done", "returned"} => ScanEndsRight

\* C31: find_assembly_blocks returns blocks in source order that do not
\* overlap, each ending at the closing brace that balances its opening brace
\* (nested braces honoured) and with inner text that excludes the two
\* outermost braces; at the first block whose braces are unbalanced the scan
\* stops without raising and returns only the blocks found before it.
C31_BlocksBalancedInOrder == <>(walk.pc = "done") /\ []BlocksRight

\* The scan has returned a block with a nested pair of braces and has stopped
\* at a later block whose brace is never closed.
C31_NestedThenUnclosed ==
  /\ walk.pc = "done"
  /\ walk.replaced = 0
  /\ Len(walk.blocks) = 1
  /\ "{" \in Range(walk.blocks[1].block_content)
  /\ MatchesFrom(walk.content, walk.blocks[1].end_pos) # {}

(***************************************************************************)
(* C32: the walk for a trailing annotation.                                *)
(***************************************************************************)
\* C32: in extract_yul_functions, the forward walk that looks for a trailing
\* annotation after a subroutine stops at the first non-blank line that is
\* not a matching slither-disable-end comment; it therefore never consumes
\* a following subroutine definition, and every subroutine whose definition
\* starts on a line of the block is present in the returned mapping.
C32_WalkConsumesNoDefinition ==
  walk.pc = "extracted" =>
     \A k \in 1..Len(walk.block) :
        walk.block[k].kind = "def" => walk.block[k].text.name \in Keys(walk.functions)

(***************************************************************************)
(* C33: where the imports stand in a rewritten block, and in which order.  *)
(***************************************************************************)
\* The names of a dict, in the order of their insertion.
NameSeq(d) == [i \in 1..Len(d) |-> d[i].name]

\* The names of the subroutine definitions among the lines, in line order.
DefinedNames(lines) ==
  NameSeq([i \in 1..Len(SelectSeq(lines, LAMBDA it : it.kind = "def" /\ ~IsSentinel(it))) |->
            SelectSeq(lines, LAMBDA it : it.kind = "def" /\ ~IsSentinel(it))[i].text])

\* The names the directives of the block inserted, in the order of their
\* insertion, and behind them the names of the active cycle group that no
\* directive inserted, in the order the group holds them.
InsertionOrder(fr) ==
  NameSeq(fr.imported_functions)
    \o (IF fr.cycle_group # {} /\ fr.current_file \in fr.cycle_group
           /\ fr.cycle_group \in GroupKeys
        THEN SelectSeq(NameSeq(GroupOf(fr.cycle_group)),
                       LAMBDA n : n \notin Keys(fr.imported_functions))
        ELSE <<>>)

\* The lines of the block that no directive holds, less the definitions that
\* the rewriter emits among the imports.
CarriedOver(fr, names) ==
  LET local == Keys(extract_yul_functions(fr.block_content, fr.current_file))
  IN SelectSeq(fr.block_content,
               LAMBDA it : /\ it.kind # "imp"
                           /\ ~(/\ it.kind = "def"
                                /\ it.text.shape # "multisig"
                                /\ it.text.name \in names
                                /\ it.text.name \in local))

\* The block reads: the imports, in that order of names and nothing between
\* them but their sentinels and annotations, and then the carried-over lines.
ImportsThenCarried(block, names, carried) ==
  LET n == Len(block) - Len(carried)
  IN /\ n >= 0
     /\ SubSeq(block, n + 1, Len(block)) = carried
     /\ \A i \in 1..n : block[i].kind \in {"def", "cmt"}
     /\ DefinedNames(SubSeq(block, 1, n)) = names

\* While a block is being rewritten, a directive's functions join the
\* imports behind the ones that are there, in the order they were resolved in.
InsertedBehind ==
  (Running("process_assembly_block", "loop") /\ Len(frames') = Len(frames)) =>
     LET old == NameSeq(Top.imported_functions)
         new == NameSeq(frames'[Len(frames)].imported_functions)
     IN new = old \o SelectSeq(NameSeq(Top.imported_funcs), LAMBDA n : n \notin Range(old))

\* C33: in every rewritten block all imported subroutine definitions precede
\* every carried-over (non-directive) line, and the imported subroutines
\* appear in the order of their first insertion into the import
\* accumulator: directive order first, then the remaining subroutines of
\* the active cycle group.
C33_ImportsFirstInInsertionOrder ==
  [][/\ InsertedBehind
     /\ BlockEmitted =>
          LET names == InsertionOrder(Top)
              carried == CarriedOver(Top, Range(names))
          IN ImportsThenCarried(ret'.value, names, JoinedLines(carried))]_vars

\* A rewritten block has just been returned that holds two imported
\* subroutines of different names and, behind them, a definition of its own.
C33_TwoImportsBeforeOwnLines ==
  /\ Running("process_file", "block_wait")
  /\ ret.kind = "value"
  /\ \E i, j, k \in 1..Len(ret.value) :
        /\ i < j /\ j < k
        /\ ret.value[i].kind = "def" /\ ret.value[i].imported /\ ~IsSentinel(ret.value[i])
        /\ ret.value[j].kind = "def" /\ ret.value[j].imported /\ ~IsSentinel(ret.value[j])
        /\ ret.value[i].text.name # ret.value[j].text.name
        /\ ret.value[k].kind = "def" /\ ~ret.value[k].imported

(***************************************************************************)
(* C34: a directive that lists several names.                              *)
(***************************************************************************)
\* Both calls have ended: the one on the files as written and the one on
\* the files with every directive split.
BothFormsDone ==
  /\ Len(results) = 2
  /\ ~Listing(files)
  /\ results[2].kind # "running"

RECURSIVE Rebuilt(_, _, _, _)
\* The text from position `from` on, with block k and the blocks behind it
\* written anew between their braces and everything else as it is.
Rebuilt(content, blocks, k, from) ==
  IF k > Len(blocks) THEN Slice(content, from, Len(content))
  ELSE Slice(content, from, blocks[k].start_pos)
       \o <<"A", "n">> \o blocks[k].block_content \o <<"n", "}">>
       \o Rebuilt(content, blocks, k + 1, blocks[k].end_pos)

\* The text returned has every token outside the blocks where it was.
OutsideKept ==
  walk.pc = "returned" => walk.text = Rebuilt(walk.content, walk.blocks, 1, 0)

\* The lines of `block` are the lines of `original`, in their order, and
\* before and behind them lines of white space only.
LinesKept(block, original) ==
  \E n \in 0..(Len(block) - Len(original)) :
     /\ SubSeq(block, n + 1, n + Len(original)) = original
     /\ \A i \in (1..n) \cup ((n + Len(original) + 1)..Len(block)) : block[i].kind = "blank"

\* The blocks without directive of the files on no import cycle are, in
\* every output, what they are on disk.
BlocksKept ==
  \A out \in RawOutputs :
     OnNoCycle(out.file_path) =>
        /\ Len(out.content) = Len(files[out.file_path])
        /\ \A b \in 1..Len(out.content) :
              ImportItems(files[out.file_path][b]) = <<>>
                 => LinesKept(out.content[b], files[out.file_path][b])

\* A block without directive, rewritten outside an active cycle group, is
\* returned as it is.
RewrittenAsItIs ==
  (/\ BlockEmitted
   /\ ImportItems(Top.block_content) = <<>>
   /\ WithCycleFunctions(Top, <<>>) = <<>>) => ret'.value = Top.block_content

C36_TargetPathIsKey ==
  walk.pc = "resolved" => walk.target_file = PathResolve(walk.target_file)

(***************************************************************************)
(* C38: what an import from self returns.                                  *)
(***************************************************************************)
\* resolve_import has just returned to a block that asked for a name from self.
SelfResolved ==
  /\ Running("process_assembly_block", "wait")
  /\ ret.kind = "value"
  /\ Top.dirs # <<>>
  /\ Top.k <= Len(Head(Top.dirs).names)
  /\ IsSelf(Head(Top.dirs).loc)

\* C38: for a directive 'import n from self', the subroutine returned under
\* the name n, and under every name that is defined in the current file, is
\* the current file's own definition: an external dependency that happens to
\* have the same name as a local subroutine never replaces the local
\* definition in the returned closure.
C38_SelfImportReturnsOwnDefinitions ==
  SelfResolved =>
     \A i \in 1..Len(ret.value) :
        ret.value[i].name \in Keys(ExtractAllBlocks(<<>>, files[Top.current_file], Top.current_file))
           => ret.value[i].source_file = Top.current_file

(***************************************************************************)
(* C37: the output for a file and what the instance did before.            *)
(***************************************************************************)
\* The call on the new instance and the call of the used instance on the
\* same file have both ended.
BothInstancesDone ==
  /\ Len(results) = 3
  /\ Last(results).kind \in {"returned", "raised"}

\* C37: the output that an instance produces for a file does not depend on
\* which other files the instance processed before or on which file was the
\* entry point: process_file(p) on a fresh instance and process_file(p) on
\* an instance that has already processed other files (successfully or with
\* an error) yield the same set of subroutines in each block of p.
C37_OutputIndependentOfHistory ==
  BothInstancesDone =>
     /\ results[1].kind = results[3].kind
     /\ Len(results[1].content) = Len(results[3].content)
     /\ \A b \in 1..Len(results[1].content) :
           {results[1].content[b][i].text : i \in Subroutines(results[1].content[b])}
             = {results[3].content[b][i].text : i \in Subroutines(results[3].content[b])}
====
